---- MODULE Spec2Model ----
(***************************************************************************)
(* Plexir: the Context Manager (plexir/core/context.py) and the Router     *)
(* (plexir/core/router.py).                                                *)
(*                                                                         *)
(* Strings are modelled by their lengths: every computation the context    *)
(* functions make on text is a computation on len(...).  A message is a    *)
(* record                                                                  *)
(*   [id, role, pinned, hasContent, content, hasParts, parts]              *)
(* where id is the position the message had in the input history (0 for a  *)
(* synthetic message), role is the role string, content is len(content),   *)
(* and parts is a sequence of [kind, len, dlen]: len is the length of the  *)
(* text estimate_token_count measures for the part and dlen the length of  *)
(* the part as distill renders it.                                         *)
(***************************************************************************)
EXTENDS Integers, Sequences, FiniteSets, TLC

VARIABLES
    c_history,  \* context functions: the history argument
    c_call,     \* context functions: the call made, [op, count, limit, sys]
    c_result,   \* context functions: what the call returned
    \* Router and its configuration
    providers,              \* Router.providers: the provider names, in failover order
    active_provider_index,  \* Router.active_provider_index (0-based)
    session_usage,          \* Router.session_usage
    session_budget,         \* config_manager.config.session_budget
    history,                \* the history list handed to Router.route
    \* one Router.route call
    pc,                     \* where the call stands
    start_index,            \* route: start_index
    loop_i,                 \* route: i of the outer loop
    attempt,                \* route: attempt of the inner loop
    first_chunk,            \* route: first_chunk
    all_provider_errors,    \* route: all_provider_errors, <<[provider, error]>>
    events,                 \* the RouterEvents and notices route has yielded, in order
    chunks_out,             \* the provider chunks route has passed on, in order
    raised,                 \* the exception that left route, [type, names]
    outcome,                \* how the call ended
    \* what the environment did in this call
    turn0,                  \* budget and total_cost when the call started; the
                            \* provider list of the loops and the provider tried
    contacted,              \* indexes of the providers whose generate was called
    last_error,             \* the last error a provider raised during generation
    n_raised,               \* [transient, other]: errors raised during generation
    fault_budget,           \* most transient errors the providers raise in one call
    \* PlexirApp: the tool dispatches of generate_response
    tool_runs,              \* <<[tool, failure, ended]>>: the tool calls dispatched
    \* one MCPClient, its server process and the ToolRegistry it registers into
    mcp_running,            \* MCPClient.running
    mcp_request_id,         \* MCPClient._request_id
    mcp_pending,            \* MCPClient._pending_requests: req_id -> the call that owns the future
    mcp_calls,              \* the send_request calls: [st, id, method, future, payload, outcome]
    mcp_read,               \* where _read_loop stands
    mcp_process,            \* the server process
    mcp_answered,           \* req_id -> the responses the server has written for it
    mcp_noise,              \* the lines read that are no JSON object, by kind
    mcp_closed_by,          \* who made disconnect take effect: "caller" or "read_loop"
    mcp_connect,            \* MCPClient.connect: [st, wrote], where the handshake stands
                            \* and the methods it has written to the server, in order
    registry                \* ToolRegistry._tools: the names registered

ctxVars == <<c_history, c_call, c_result>>

mcpVars ==
    <<mcp_running, mcp_request_id, mcp_pending, mcp_calls, mcp_read, mcp_process,
      mcp_answered, mcp_noise, mcp_closed_by, mcp_connect, registry>>

routerVars ==
    <<providers, active_provider_index, session_usage, session_budget, history,
      fault_budget>>

turnVars ==
    <<pc, start_index, loop_i, attempt, first_chunk, all_provider_errors, events,
      chunks_out, raised, outcome, turn0, contacted, last_error, n_raised>>

\* routerVars without the history
routerRest ==
    <<providers, active_provider_index, session_usage, session_budget, fault_budget>>

vars == <<ctxVars, routerVars, turnVars, tool_runs, mcpVars>>

-----------------------------------------------------------------------------
(* Python helpers *)

Min(a, b) == IF a < b THEN a ELSE b

Max(a, b) == IF a > b THEN a ELSE b

\* The position a slice bound i denotes in a list of length n.
PyIndex(n, i) == IF i < 0 THEN Max(n + i, 0) ELSE Min(i, n)

\* s[i:]
SliceFrom(s, i) == SubSeq(s, PyIndex(Len(s), i) + 1, Len(s))

\* s[:j]
SliceTo(s, j) == SubSeq(s, 1, PyIndex(Len(s), j))

RECURSIVE SumSeq(_)
SumSeq(s) == IF s = <<>> THEN 0 ELSE Head(s) + SumSeq(Tail(s))

\* An optional integer argument: None, or an int.
PyNone == [none |-> TRUE, val |-> 0]

PyInt(n) == [none |-> FALSE, val |-> n]

-----------------------------------------------------------------------------
(* context.py: module constants *)

DEFAULT_MAX_DISTILLED_CHARS == 1000

MAX_MESSAGE_LENGTH == 200

RECENT_MESSAGES_COUNT == 5

KEEP_LAST_MESSAGES == 4

\* get_messages_to_summarize: "We never summarize the last 10 messages"
KEEP_RECENT == 10

\* distill: wrapper_overhead
DISTILL_WRAPPER_OVERHEAD == 100

\* enforce_context_limit: wrapper_overhead_tokens
WRAPPER_OVERHEAD_TOKENS == 50

\* len("... (truncated)")
LEN_TRUNC_SUFFIX == 15

\* len("No relevant recent context available (truncated).")
LEN_SENTINEL == 49

\* len("--- Distilled Previous Context ---\n")
LEN_DISTILL_HEADER == 35

\* len("----------------------------------")
LEN_DISTILL_FOOTER == 34

\* len("[System Note: The beginning of this conversation has been summarized
\* due to length constraints.]\n")
LEN_SYSTEM_NOTE == 97

\* estimate_token_count: characters per token
CHARS_PER_TOKEN == 4

-----------------------------------------------------------------------------
(* context.py: estimate_token_count *)

\* isinstance(content, str): len(content) // 4
estimate_str(n) == n \div CHARS_PER_TOKEN

\* A part met in the loop "for part in item['parts']" of the list branch:
\* a dict with text / thought / function_call / function_response, or a str.
estimate_part_of_message(p) ==
    IF p.kind \in {"text", "thought", "function_call", "function_response", "str"}
    THEN estimate_str(p.len)
    ELSE 0

\* A part met as an item of the list branch (the dict branch passes
\* content["parts"] to estimate_token_count): a dict part has neither
\* "content" nor "parts" and adds nothing, a str part adds len // 4.
estimate_part_as_item(p) ==
    IF p.kind = "str" THEN estimate_str(p.len) ELSE 0

\* One dict item of the list branch.
estimate_item(m) ==
    (IF m.hasContent THEN estimate_str(m.content) ELSE 0)
    + (IF m.hasParts
       THEN SumSeq([k \in 1..Len(m.parts) |-> estimate_part_of_message(m.parts[k])])
       ELSE 0)

\* isinstance(content, list)
estimate_list(h) == SumSeq([k \in 1..Len(h) |-> estimate_item(h[k])])

\* isinstance(content, dict): a single message
estimate_dict(m) ==
    (IF m.hasContent THEN estimate_str(m.content) ELSE 0)
    + (IF m.hasParts
       THEN SumSeq([k \in 1..Len(m.parts) |-> estimate_part_as_item(m.parts[k])])
       ELSE 0)

-----------------------------------------------------------------------------
(* context.py: distill *)

\* len(role.upper()) for the roles a message carries
RoleLen(role) ==
    CASE role = "user" -> 4
      [] role = "model" -> 5
      [] role = "system" -> 6
      [] OTHER -> 7

\* len(content) of a message as distill extracts it.
distill_content_len(m) ==
    IF m.hasContent THEN m.content
    ELSE IF m.hasParts /\ Len(m.parts) > 0
         THEN SumSeq([k \in 1..Len(m.parts) |-> m.parts[k].dlen]) + (Len(m.parts) - 1)
         ELSE 0

\* len(formatted_message): f"{role.upper()}: {content}\n" after truncation
distill_formatted_len(m) ==
    LET c == distill_content_len(m)
        t == IF c > MAX_MESSAGE_LENGTH THEN MAX_MESSAGE_LENGTH + LEN_TRUNC_SUFFIX ELSE c
    IN  RoleLen(m.role) + 2 + t + 1

\* The loop over reversed(history): k is the position (from the end) still to
\* visit, acc the ids collected so far (chronological), cur current_length.
RECURSIVE distill_loop(_, _, _, _, _)
distill_loop(h, k, acc, cur, available_chars) ==
    IF k = 0 THEN [ids |-> acc, length |-> cur]
    ELSE LET f == distill_formatted_len(h[k])
         IN  IF cur + f > available_chars
             THEN [ids |-> acc, length |-> cur]
             ELSE LET acc2 == <<h[k].id>> \o acc
                      cur2 == cur + f
                  IN  IF Len(acc2) >= RECENT_MESSAGES_COUNT /\ 2 * cur2 > available_chars
                      THEN [ids |-> acc2, length |-> cur2]
                      ELSE distill_loop(h, k - 1, acc2, cur2, available_chars)

\* distill with no space reserved for the wrapper text.
distill_no_reserve(h, max_chars) ==
    LET available_chars == Max(0, max_chars)
        r == distill_loop(h, Len(h), <<>>, 0, available_chars)
    IN  IF r.ids = <<>>
        THEN [ids |-> <<>>, length |-> LEN_SENTINEL]
        ELSE [ids |-> r.ids,
              length |-> LEN_DISTILL_HEADER + r.length + LEN_DISTILL_FOOTER]

\* distill(history, max_chars): the ids of the messages rendered, and len() of
\* the string returned.
distill(h, max_chars) ==
    LET available_chars == Max(0, max_chars - DISTILL_WRAPPER_OVERHEAD)
        r == distill_loop(h, Len(h), <<>>, 0, available_chars)
    IN  IF r.ids = <<>>
        THEN [ids |-> <<>>, length |-> LEN_SENTINEL]
        ELSE [ids |-> r.ids,
              length |-> LEN_DISTILL_HEADER + r.length + LEN_DISTILL_FOOTER]

-----------------------------------------------------------------------------
(* context.py: get_messages_to_summarize *)

\* SelectPinned without the test of the flag: every old message is summarizable.
SelectPinned_ignoring_flag(s, want) == IF want THEN <<>> ELSE s

\* The loop over history_old: the messages with a truthy "pinned".
RECURSIVE SelectPinned(_, _)
SelectPinned(s, want) ==
    IF s = <<>> THEN <<>>
    ELSE (IF Head(s).pinned = want THEN <<Head(s)>> ELSE <<>>)
         \o SelectPinned(Tail(s), want)

\* get_messages_to_summarize taking the newest count summarizable messages.
get_messages_to_summarize_newest(hist, count) ==
    LET keep_recent == IF Len(hist) > KEEP_RECENT
                       THEN SliceFrom(hist, -KEEP_RECENT) ELSE hist
        history_old == IF Len(hist) > KEEP_RECENT
                       THEN SliceTo(hist, -KEEP_RECENT) ELSE <<>>
        pinned      == SelectPinned(history_old, TRUE)
        unpinned    == SelectPinned(history_old, FALSE)
    IN  IF Len(unpinned) > count
        THEN [to_summarize |-> SliceFrom(unpinned, Len(unpinned) - count),
              to_keep |-> (pinned \o SliceTo(unpinned, Len(unpinned) - count))
                              \o keep_recent]
        ELSE [to_summarize |-> unpinned,
              to_keep |-> pinned \o keep_recent]

get_messages_to_summarize(hist, count) ==
    LET keep_recent == IF Len(hist) > KEEP_RECENT
                       THEN SliceFrom(hist, -KEEP_RECENT) ELSE hist
        history_old == IF Len(hist) > KEEP_RECENT
                       THEN SliceTo(hist, -KEEP_RECENT) ELSE <<>>
        pinned      == SelectPinned(history_old, TRUE)
        unpinned    == SelectPinned(history_old, FALSE)
    IN  IF Len(unpinned) > count
        THEN [to_summarize |-> SliceTo(unpinned, count),
              to_keep |-> (pinned \o SliceFrom(unpinned, count)) \o keep_recent]
        ELSE [to_summarize |-> unpinned,
              to_keep |-> pinned \o keep_recent]

-----------------------------------------------------------------------------
(* context.py: enforce_context_limit *)

\* summary_message with the role "system".
summary_message_system(summary_len) ==
    [id |-> 0, role |-> "system", pinned |-> FALSE,
     hasContent |-> TRUE, content |-> LEN_SYSTEM_NOTE + summary_len,
     hasParts |-> FALSE, parts |-> <<>>]

\* The synthetic message that carries the summary text.
summary_message(summary_len) ==
    [id |-> 0, role |-> "user", pinned |-> FALSE,
     hasContent |-> TRUE, content |-> LEN_SYSTEM_NOTE + summary_len,
     hasParts |-> FALSE, parts |-> <<>>]

\* truncate_recent with "if" for "while": one message dropped at most.
truncate_recent_once(recent, sys_tokens, limit) ==
    IF recent # <<>> /\ estimate_list(recent) + sys_tokens > limit
    THEN Tail(recent)
    ELSE recent

\* while recent_history and estimate(recent_history) + sys_tokens > limit: pop(0)
RECURSIVE truncate_recent(_, _, _)
truncate_recent(recent, sys_tokens, limit) ==
    IF recent # <<>> /\ estimate_list(recent) + sys_tokens > limit
    THEN truncate_recent(Tail(recent), sys_tokens, limit)
    ELSE recent

\* within_limit with "<" for "<=".
within_limit_strict(current_tokens, lim) == current_tokens < lim

\* The test "current_tokens <= limit" of enforce_context_limit.
within_limit(current_tokens, lim) == current_tokens <= lim

\* enforce_context_limit(history, limit, system_instruction): the field
\* history is the list returned; path names the return statement taken.
enforce_context_limit(hist, limit, sys_len) ==
    IF limit.none \/ limit.val = 0 \/ limit.val <= 0
    THEN [history |-> hist, path |-> "no_limit"]
    ELSE
    LET lim == limit.val
        sys_tokens == estimate_str(sys_len)
        current_tokens == estimate_list(hist) + sys_tokens
    IN  IF within_limit(current_tokens, lim)
        THEN [history |-> hist, path |-> "fits"]
        ELSE
        LET recent_history == SliceFrom(hist, -KEEP_LAST_MESSAGES)
            older_history  == SliceTo(hist, -KEEP_LAST_MESSAGES)
            recent_tokens  == estimate_list(recent_history)
            available_tokens_for_summary ==
                lim - sys_tokens - recent_tokens - WRAPPER_OVERHEAD_TOKENS
        IN  IF available_tokens_for_summary < 0
            THEN [history |-> truncate_recent(recent_history, sys_tokens, lim),
                  path |-> "truncated"]
            ELSE
            LET max_summary_chars == available_tokens_for_summary * CHARS_PER_TOKEN
                summary_text == distill(older_history, max_summary_chars)
            IN  [history |-> <<summary_message(summary_text.length)>> \o recent_history,
                 path |-> "summary"]

-----------------------------------------------------------------------------
(* Inputs of the context functions *)

\* Longest history given to get_messages_to_summarize.
MaxPinLen == 12

\* Longest history given to estimate_token_count and enforce_context_limit.
MaxTextLen == 6

TextPart(n) == [kind |-> "text", len |-> n, dlen |-> n + 12]

StrPart(n) == [kind |-> "str", len |-> n, dlen |-> n]

FunctionCallPart(n, d) == [kind |-> "function_call", len |-> n, dlen |-> d]

\* The shapes of message the histories are built from:
\* a short user message, a long model message, and a model message whose text
\* is carried in parts (a text part, a function_call part and a plain string).
MessageShapes ==
    { [role |-> "user", hasContent |-> TRUE, content |-> 8,
       hasParts |-> FALSE, parts |-> <<>>],
      [role |-> "model", hasContent |-> TRUE, content |-> 1000,
       hasParts |-> FALSE, parts |-> <<>>],
      [role |-> "model", hasContent |-> FALSE, content |-> 0,
       hasParts |-> TRUE,
       parts |-> <<TextPart(9), FunctionCallPart(51, 34), StrPart(8)>>] }

ShortMessage == CHOOSE s \in MessageShapes : s.hasContent /\ s.content = 8

MakeMessage(shape, id, pinned) ==
    [id |-> id, role |-> shape.role, pinned |-> pinned,
     hasContent |-> shape.hasContent, content |-> shape.content,
     hasParts |-> shape.hasParts, parts |-> shape.parts]

\* Histories of unpinned messages of every shape.
TextHistories ==
    UNION { { [k \in 1..n |-> MakeMessage(f[k], k, FALSE)] :
              f \in [1..n -> MessageShapes] } : n \in 0..MaxTextLen }

\* Histories of short messages under every pin pattern.
PinHistories ==
    UNION { { [k \in 1..n |-> MakeMessage(ShortMessage, k, f[k])] :
              f \in [1..n -> BOOLEAN] } : n \in 0..MaxPinLen }

\* count arguments, the negative one included (a Python slice accepts it)
Counts == {-1, 0, 1, 2, 3}

\* limit arguments: None, a negative, zero, and positive limits
Limits == {PyNone} \cup { PyInt(n) : n \in {-5, 0, 1, 10, 60, 140, 200, 330, 600} }

\* len(system_instruction)
SysLens == {0, 40}

\* max_chars arguments of distill: budgets that hold no message, one message
\* exactly, several messages, and the default
MaxCharsArgs == {0, 50, 110, 115, 130, 240, 250, 400, DEFAULT_MAX_DISTILLED_CHARS}

NoCall == [op |-> "none", count |-> 0, limit |-> PyNone, sys |-> 0, max_chars |-> 0]

NoResult ==
    [to_summarize |-> <<>>, to_keep |-> <<>>, history |-> <<>>, path |-> "",
     tokens |-> 0, each |-> <<>>, ids |-> <<>>, length |-> 0]

ContextInit ==
    /\ c_history = <<>>
    /\ c_call = NoCall
    /\ c_result = NoResult

\* estimate_token_count(history), and estimate_token_count(m) of each message
CallDistill ==
    /\ c_call.op = "none"
    /\ \E h \in TextHistories, max_chars \in MaxCharsArgs :
        /\ c_history' = h
        /\ c_call' = [NoCall EXCEPT !.op = "distill", !.max_chars = max_chars]
        /\ LET r == distill(h, max_chars)
           IN  c_result' = [NoResult EXCEPT !.ids = r.ids, !.length = r.length]
    /\ UNCHANGED <<routerVars, turnVars, tool_runs, mcpVars>>

CallEstimateTokenCount ==
    /\ c_call.op = "none"
    /\ \E h \in TextHistories :
        /\ c_history' = h
        /\ c_call' = [NoCall EXCEPT !.op = "estimate"]
        /\ c_result' = [NoResult EXCEPT
                          !.tokens = estimate_list(h),
                          !.each = [k \in 1..Len(h) |-> estimate_dict(h[k])]]
    /\ UNCHANGED <<routerVars, turnVars, tool_runs, mcpVars>>

\* get_messages_to_summarize(history, count)
CallGetMessagesToSummarize ==
    /\ c_call.op = "none"
    /\ \E h \in PinHistories, count \in Counts :
        /\ c_history' = h
        /\ c_call' = [NoCall EXCEPT !.op = "split", !.count = count]
        /\ LET r == get_messages_to_summarize(h, count)
           IN  c_result' = [NoResult EXCEPT
                              !.to_summarize = r.to_summarize,
                              !.to_keep = r.to_keep]
    /\ UNCHANGED <<routerVars, turnVars, tool_runs, mcpVars>>

\* enforce_context_limit(history, limit, system_instruction)
CallEnforceContextLimit ==
    /\ c_call.op = "none"
    /\ \E h \in TextHistories, limit \in Limits, sys \in SysLens :
        /\ c_history' = h
        /\ c_call' = [NoCall EXCEPT !.op = "enforce", !.limit = limit, !.sys = sys]
        /\ LET r == enforce_context_limit(h, limit, sys)
           IN  c_result' = [NoResult EXCEPT
                              !.history = r.history,
                              !.path = r.path]
    /\ UNCHANGED <<routerVars, turnVars, tool_runs, mcpVars>>

-----------------------------------------------------------------------------
(* router.py: errors and their classification *)

\* config: active_provider_order
AllProviders == <<"Gemini Primary", "Gemini Fallback", "Groq Backup">>

\* An error is its text and the phrases of is_retryable_error that occur in
\* str(error).lower().
Error(text, phrases) == [text |-> text, phrases |-> phrases]

NoError == Error("", {})

\* The errors a provider raises, in the wording of its backend: a rate limit
\* or server error, an exhausted quota, and an error of neither kind.
ErrorsOf(name) ==
    CASE name = "Gemini Primary" ->
            { Error("429 Too Many Requests", {"429", "too many requests"}),
              Error("429 You exceeded your current quota",
                    {"429", "exceeded your current", "quota"}),
              Error("Fatal Error", {}) }
      [] name = "Gemini Fallback" ->
            { Error("503 Service Unavailable", {"503"}),
              Error("Quota exceeded", {"quota"}),
              Error("Fatal Error", {}) }
      [] OTHER ->
            { Error("Rate limit reached, 500 requests", {"rate limit", "500"}),
              Error("Daily limit reached", {"daily"}),
              Error("Fatal Error", {}) }

\* The errors providers raise.
ErrorMessages == UNION { ErrorsOf(AllProviders[k]) : k \in 1..Len(AllProviders) }

HardPhrases == {"quota", "daily", "exceeded your current"}

RateLimitPhrases == {"429", "rate limit", "too many requests"}

ServerErrorPhrases == {"500", "502", "503", "504"}

\* is_retryable_error without the hard-exhaustion test that comes first.
is_retryable_error_no_hard_check(e) ==
    (e.phrases \cap (RateLimitPhrases \cup ServerErrorPhrases)) # {}

is_retryable_error(e) ==
    IF (e.phrases \cap HardPhrases) # {} THEN FALSE
    ELSE IF (e.phrases \cap RateLimitPhrases) # {} THEN TRUE
    ELSE IF (e.phrases \cap ServerErrorPhrases) # {} THEN TRUE
    ELSE FALSE

-----------------------------------------------------------------------------
(* router.py: Router *)

MAX_HISTORY_MESSAGES == 40

\* route: max_retries
max_retries == 10

\* route: the cap of the backoff, min(2 ** attempt, 30)
MAX_WAIT == 30

\* summarize_session: the count given to get_messages_to_summarize
SUMMARIZE_COUNT == 20

\* len("BACKGROUND SUMMARY of previous conversation:\n")
LEN_SUMMARY_PREFIX == 45

RECURSIVE Pow2(_)
Pow2(n) == IF n = 0 THEN 1 ELSE 2 * Pow2(n - 1)

\* Most providers configured.
MaxProviders == 2

ProviderLists == { SubSeq(AllProviders, 1, n) : n \in 0..MaxProviders }

\* provider.model_name
ModelName(name) ==
    CASE name = "Gemini Primary" -> "gemini-3-flash-preview"
      [] name = "Gemini Fallback" -> "gemini-2.5-flash"
      [] OTHER -> "openai/gpt-oss-120b"

\* PRICING_MAP.get(model, (0.50, 1.50)): thousandths of a dollar per million tokens
Rates(model) ==
    CASE model = "gemini-2.0-flash" -> <<100, 400>>
      [] model = "gemini-1.5-flash" -> <<75, 300>>
      [] model = "gemini-1.5-pro" -> <<1250, 5000>>
      [] model = "gpt-4o" -> <<2500, 10000>>
      [] model = "gpt-4o-mini" -> <<150, 600>>
      [] model = "claude-3-5-sonnet" -> <<3000, 15000>>
      [] model = "llama-3.3-70b-versatile" -> <<590, 790>>
      [] OTHER -> <<500, 1500>>

\* _calculate_cost: tokens in millions, the cost in thousandths of a dollar
calculate_cost(model, prompt_tokens, completion_tokens) ==
    prompt_tokens * Rates(model)[1] + completion_tokens * Rates(model)[2]

\* The usage chunk a provider reports (millions of tokens).
UsageChunks == { [prompt_tokens |-> 1, completion_tokens |-> 1, total_tokens |-> 2] }

\* Most tokens (millions) the providers report in a session.
MaxTokens == 2

\* Most chunks the providers yield in one call of route.
MaxChunks == 1

\* Most transient errors the providers raise in one call of route, in Spec.
MaxTransient == 3

\* session_budget values (thousandths of a dollar); 0 is "no limit"
Budgets == {0, 2000}

\* What route yields besides provider chunks.
Event(type, provider, att, wait, errors) ==
    [type |-> type, provider |-> provider, attempt |-> att, max |-> max_retries,
     wait |-> wait, errors |-> errors]

BudgetNotice == Event("budget_exceeded", "", 0, 0, <<>>)

NoProvidersNotice == Event("no_providers", "", 0, 0, <<>>)

SummarizingEvent == Event("system", "", 0, 0, <<>>)

FailoverEvent(name) == Event("failover", name, 0, 0, <<>>)

\* RetryEvent with the attempt counted from 0.
RetryEvent_from_zero(name, att, wait) == Event("retry", name, att - 1, wait, <<>>)

RetryEvent(name, att, wait) == Event("retry", name, att, wait, <<>>)

AllFailedNotice(errors) == Event("all_failed", "", 0, 0, errors)

NoException == [type |-> "", names |-> {}]

\* RuntimeError("Failover exhausted."): the message names no provider
FailoverExhausted == [type |-> "RuntimeError", names |-> {}]

\* self.providers[self.active_provider_index] with the index out of range
IndexErrorRaised == [type |-> "IndexError", names |-> {}]

\* The histories handed to route: a short one, one longer than
\* MAX_HISTORY_MESSAGES with its first message pinned, and one that long whose
\* old messages are all pinned.
RouterHistories ==
    { [k \in 1..2 |-> MakeMessage(ShortMessage, k, FALSE)],
      [k \in 1..(MAX_HISTORY_MESSAGES + 1) |-> MakeMessage(ShortMessage, k, k = 1)],
      [k \in 1..(MAX_HISTORY_MESSAGES + 1) |->
          MakeMessage(ShortMessage, k, k <= MAX_HISTORY_MESSAGES + 1 - KEEP_RECENT)] }

\* len(summary_text.strip()) of a summary a provider wrote
LEN_SUMMARY_TEXT == 120

background_summary ==
    [id |-> 0, role |-> "system", pinned |-> TRUE,
     hasContent |-> TRUE, content |-> LEN_SUMMARY_PREFIX + LEN_SUMMARY_TEXT,
     hasParts |-> FALSE, parts |-> <<>>]

TurnReset ==
    /\ pc' = "idle"
    /\ start_index' = 0
    /\ loop_i' = 0
    /\ attempt' = 0
    /\ first_chunk' = TRUE
    /\ all_provider_errors' = <<>>
    /\ events' = <<>>
    /\ chunks_out' = <<>>
    /\ raised' = NoException
    /\ outcome' = ""
    /\ turn0' = [budget |-> 0, cost |-> 0, providers |-> <<>>, provider |-> "",
                  after_tool |-> ""]
    /\ contacted' = {}
    /\ last_error' = NoError
    /\ n_raised' = [transient |-> 0, other |-> 0]

TurnIdle ==
    /\ pc = "idle"
    /\ start_index = 0
    /\ loop_i = 0
    /\ attempt = 0
    /\ first_chunk = TRUE
    /\ all_provider_errors = <<>>
    /\ events = <<>>
    /\ chunks_out = <<>>
    /\ raised = NoException
    /\ outcome = ""
    /\ turn0 = [budget |-> 0, cost |-> 0, providers |-> <<>>, provider |-> "",
                  after_tool |-> ""]
    /\ contacted = {}
    /\ last_error = NoError
    /\ n_raised = [transient |-> 0, other |-> 0]

\* Router.__init__, the provider list reload_providers built from the
\* configuration, the configured budget and the session's history.
RouterInit ==
    /\ providers \in ProviderLists
    /\ active_provider_index = 0
    /\ session_usage = [prompt_tokens |-> 0, completion_tokens |-> 0,
                        total_tokens |-> 0, total_cost |-> 0]
    /\ session_budget \in Budgets
    /\ history \in RouterHistories
    /\ fault_budget = MaxTransient
    /\ TurnIdle

\* route: "if budget > 0 and self.session_usage['total_cost'] >= budget" with
\* ">" for ">=".
budget_exceeded_strict(budget, total_cost) == budget > 0 /\ total_cost > budget

\* route: "if budget > 0 and self.session_usage['total_cost'] >= budget"
budget_exceeded(budget, total_cost) == budget > 0 /\ total_cost >= budget

\* RouteBegin with the test for summarization ahead of the budget check.
RouteBegin_summarize_first ==
    /\ pc = "idle"
    /\ turn0' = [budget |-> session_budget, cost |-> session_usage.total_cost,
                  providers |-> <<>>, provider |-> "",
                  after_tool |-> ""]
    /\ IF Len(history) > MAX_HISTORY_MESSAGES
       THEN /\ events' = <<SummarizingEvent>>
            /\ outcome' = ""
            /\ pc' = "summarize"
       ELSE IF budget_exceeded(session_budget, session_usage.total_cost)
       THEN /\ events' = <<BudgetNotice>>
            /\ outcome' = "budget"
            /\ pc' = "returned"
       ELSE /\ events' = <<>>
            /\ outcome' = ""
            /\ pc' = "setup"
    /\ UNCHANGED <<start_index, loop_i, attempt, first_chunk, all_provider_errors,
                   chunks_out, raised, contacted, last_error, n_raised>>
    /\ UNCHANGED <<routerVars, ctxVars, tool_runs, mcpVars>>

\* route, from the call to the first provider contact: the budget check and
\* the test for summarization.
RouteBegin ==
    /\ pc = "idle"
    /\ turn0' = [budget |-> session_budget, cost |-> session_usage.total_cost,
                  providers |-> <<>>, provider |-> "",
                  after_tool |-> ""]
    /\ IF budget_exceeded(session_budget, session_usage.total_cost)
       THEN /\ events' = <<BudgetNotice>>
            /\ outcome' = "budget"
            /\ pc' = "returned"
       ELSE IF Len(history) > MAX_HISTORY_MESSAGES
       THEN /\ events' = <<SummarizingEvent>>
            /\ outcome' = ""
            /\ pc' = "summarize"
       ELSE /\ events' = <<>>
            /\ outcome' = ""
            /\ pc' = "setup"
    /\ UNCHANGED <<start_index, loop_i, attempt, first_chunk, all_provider_errors,
                   chunks_out, raised, contacted, last_error, n_raised>>
    /\ UNCHANGED <<routerVars, ctxVars, tool_runs, mcpVars>>

\* provider.name of self.providers[index]
ProviderName(index) == providers[index + 1]

Split == get_messages_to_summarize(history, SUMMARIZE_COUNT)

\* summarize_session: "if not to_summarize: return"
SummarizeNothing ==
    /\ pc = "summarize"
    /\ Split.to_summarize = <<>>
    /\ pc' = "setup"
    /\ UNCHANGED <<start_index, loop_i, attempt, first_chunk, all_provider_errors,
                   events, chunks_out, raised, outcome, turn0, contacted, last_error,
                   n_raised>>
    /\ UNCHANGED <<routerVars, ctxVars, tool_runs, mcpVars>>

\* summarize_session: provider = self.providers[self.active_provider_index]
\* with no provider at that index; the IndexError leaves route.
SummarizeIndexError ==
    /\ pc = "summarize"
    /\ Split.to_summarize # <<>>
    /\ active_provider_index >= Len(providers)
    /\ pc' = "raised"
    /\ raised' = IndexErrorRaised
    /\ outcome' = "error"
    /\ UNCHANGED <<start_index, loop_i, attempt, first_chunk, all_provider_errors,
                   events, chunks_out, turn0, contacted, last_error, n_raised>>
    /\ UNCHANGED <<routerVars, ctxVars, tool_runs, mcpVars>>

SummarizeContact ==
    /\ pc = "summarize"
    /\ Split.to_summarize # <<>>
    /\ active_provider_index < Len(providers)
    /\ contacted' = contacted \cup {active_provider_index}
    /\ pc' = "setup"
    /\ UNCHANGED <<start_index, loop_i, attempt, first_chunk, all_provider_errors,
                   events, chunks_out, raised, outcome, turn0, last_error, n_raised>>
    /\ UNCHANGED <<providers, active_provider_index, session_usage, session_budget,
                   fault_budget>>
    /\ UNCHANGED <<ctxVars, tool_runs, mcpVars>>

\* SummarizeSucceeds keeping the pinned and the recent messages only.
SummarizeSucceeds_drops_overflow ==
    /\ SummarizeContact
    /\ history' = (<<background_summary>>
                      \o SelectPinned(SliceTo(history, -KEEP_RECENT), TRUE))
                      \o SliceFrom(history, -KEEP_RECENT)

\* summarize_session: the provider streams a summary; the history is replaced
\* in place by the summary and to_keep.
SummarizeSucceeds ==
    /\ SummarizeContact
    /\ history' = <<background_summary>> \o Split.to_keep

\* summarize_session: the provider's stream ends without any text.
SummarizeEmpty ==
    /\ SummarizeContact
    /\ history' = history

\* SummarizeFails with the history cleared before the provider raised.
SummarizeFails_clears ==
    /\ SummarizeContact
    /\ \E e \in ErrorsOf(ProviderName(active_provider_index)) : history' = <<>>

\* summarize_session: the provider raises; the error is logged.
SummarizeFails ==
    /\ SummarizeContact
    /\ \E e \in ErrorsOf(ProviderName(active_provider_index)) : history' = history

\* route: the test for an empty provider list, the normalisation of
\* active_provider_index and the entry of the loops.
RouteSetup ==
    /\ pc = "setup"
    /\ IF Len(providers) = 0
       THEN /\ events' = Append(events, NoProvidersNotice)
            /\ outcome' = "no_providers"
            /\ pc' = "returned"
            /\ UNCHANGED <<active_provider_index, start_index, turn0>>
       ELSE /\ active_provider_index' =
                  IF active_provider_index >= Len(providers) THEN 0
                  ELSE active_provider_index
            /\ start_index' = active_provider_index'
            /\ turn0' = [turn0 EXCEPT !.providers = providers,
                                      !.provider = providers[start_index' + 1]]
            /\ pc' = "stream"
            /\ UNCHANGED <<events, outcome>>
    /\ loop_i' = 0
    /\ attempt' = 0
    /\ first_chunk' = TRUE
    /\ all_provider_errors' = <<>>
    /\ UNCHANGED <<chunks_out, raised, contacted, last_error, n_raised>>
    /\ UNCHANGED <<providers, session_usage, session_budget, history, fault_budget,
                   ctxVars, tool_runs, mcpVars>>

\* route: num_providers = len(self.providers), taken before the loops
num_providers == Len(turn0.providers)

\* route: actual_index = (start_index + i) % num_providers
actual_index == (start_index + loop_i) % num_providers

\* route: provider = self.providers[actual_index], taken when the outer loop
\* reaches i; provider.name
current_provider == turn0.provider

\* CommitOnFirstChunk without the assignment to active_provider_index.
CommitOnFirstChunk_no_commit ==
    /\ contacted' = contacted \cup {actual_index}
    /\ active_provider_index' = active_provider_index
    /\ first_chunk' = FALSE

\* The body of "async for chunk in provider.generate(...)" up to the test of
\* the chunk: the first chunk of a stream commits active_provider_index.
CommitOnFirstChunk ==
    /\ contacted' = contacted \cup {actual_index}
    /\ active_provider_index' =
          IF first_chunk THEN actual_index ELSE active_provider_index
    /\ first_chunk' = FALSE

\* The provider yields a text fragment; route passes it on.
StreamText ==
    /\ pc = "stream"
    /\ Len(chunks_out) < MaxChunks
    /\ CommitOnFirstChunk
    /\ chunks_out' = Append(chunks_out, [type |-> "text", total_cost_accumulated |-> 0])
    /\ UNCHANGED <<pc, start_index, loop_i, attempt, all_provider_errors, events,
                   raised, outcome, turn0, last_error, n_raised>>
    /\ UNCHANGED <<providers, session_usage, session_budget, history, fault_budget,
                   ctxVars, tool_runs, mcpVars>>

\* The provider yields a usage chunk; route adds it to session_usage and
\* yields a USAGE event with the running total.
StreamUsage ==
    /\ pc = "stream"
    /\ Len(chunks_out) < MaxChunks
    /\ \E u \in UsageChunks :
        /\ session_usage.total_tokens + u.total_tokens <= MaxTokens
        /\ CommitOnFirstChunk
        /\ LET cost == calculate_cost(ModelName(current_provider),
                                      u.prompt_tokens, u.completion_tokens)
           IN  /\ session_usage' =
                     [prompt_tokens |-> session_usage.prompt_tokens + u.prompt_tokens,
                      completion_tokens |->
                          session_usage.completion_tokens + u.completion_tokens,
                      total_tokens |-> session_usage.total_tokens + u.total_tokens,
                      total_cost |-> session_usage.total_cost + cost]
               /\ chunks_out' = Append(chunks_out,
                     [type |-> "usage",
                      total_cost_accumulated |-> session_usage'.total_cost])
    /\ UNCHANGED <<pc, start_index, loop_i, attempt, all_provider_errors, events,
                   raised, outcome, turn0, last_error, n_raised>>
    /\ UNCHANGED <<providers, session_budget, history, fault_budget, ctxVars,
                   tool_runs, mcpVars>>

\* The provider's stream ends: "return # Success!"
StreamEnd ==
    /\ pc = "stream"
    /\ contacted' = contacted \cup {actual_index}
    /\ pc' = "returned"
    /\ outcome' = "success"
    /\ UNCHANGED <<start_index, loop_i, attempt, first_chunk, all_provider_errors,
                   events, chunks_out, raised, turn0, last_error, n_raised>>
    /\ UNCHANGED <<routerVars, ctxVars, tool_runs, mcpVars>>

\* should_retry with the ceiling included: "attempt <= max_retries".
should_retry_inclusive(e, att) == is_retryable_error(e) /\ att <= max_retries

\* "if is_retryable_error(e) and attempt < max_retries"
should_retry(e, att) == is_retryable_error(e) /\ att < max_retries

\* The error reads as a rate limit or a server error and not as an exhausted
\* quota.
is_transient_phrased(e) ==
    /\ (e.phrases \cap HardPhrases) = {}
    /\ (e.phrases \cap (RateLimitPhrases \cup ServerErrorPhrases)) # {}

\* The environment's count of the errors raised, by their phrasing.
CountRaised(e) ==
    IF is_transient_phrased(e)
    THEN [n_raised EXCEPT !.transient = @ + 1]
    ELSE [n_raised EXCEPT !.other = @ + 1]

\* RaiseRetry with the attempt counter left as it is.
RaiseRetry_same_attempt(e) ==
    /\ should_retry(e, attempt)
    /\ events' = Append(events,
          RetryEvent(current_provider, attempt + 1,
                     Min(Pow2(attempt), MAX_WAIT)))
    /\ attempt' = attempt
    /\ first_chunk' = TRUE
    /\ UNCHANGED <<pc, loop_i, all_provider_errors, raised, outcome,
                   active_provider_index, turn0>>

\* The provider raises and the error is retried: a RETRY event, the backoff,
\* and the same provider again.
RaiseRetry(e) ==
    /\ should_retry(e, attempt)
    /\ events' = Append(events,
          RetryEvent(current_provider, attempt + 1,
                     Min(Pow2(attempt), MAX_WAIT)))
    /\ attempt' = attempt + 1
    /\ first_chunk' = TRUE
    /\ UNCHANGED <<pc, loop_i, all_provider_errors, raised, outcome,
                   active_provider_index, turn0>>

\* RecordedErrors with the list overwritten, not appended to.
RecordedErrors_last_only(e) ==
    <<[provider |-> current_provider, error |-> e.text]>>

\* The error recorded for the provider that is given up.
RecordedErrors(e) ==
    Append(all_provider_errors, [provider |-> current_provider, error |-> e.text])

\* next_index with the outer loop counted from the first provider of the list,
\* not from start_index.
next_index_from_zero == (loop_i + 1) % num_providers

\* actual_index of the next round of the outer loop
next_index == (start_index + loop_i + 1) % num_providers

\* RaiseFailover with active_provider_index set to the provider announced.
RaiseFailover_pins(e) ==
    /\ ~should_retry(e, attempt)
    /\ loop_i + 1 < num_providers
    /\ next_index < Len(providers)
    /\ all_provider_errors' = RecordedErrors(e)
    /\ loop_i' = loop_i + 1
    /\ turn0' = [turn0 EXCEPT !.provider = ProviderName(next_index)]
    /\ events' = Append(events, FailoverEvent(ProviderName(next_index)))
    /\ active_provider_index' = next_index
    /\ attempt' = 0
    /\ first_chunk' = TRUE
    /\ UNCHANGED <<pc, raised, outcome>>

\* The provider raises, the error is not retried and a provider is left: the
\* error is recorded and the next provider is announced.
RaiseFailover(e) ==
    /\ ~should_retry(e, attempt)
    /\ loop_i + 1 < num_providers
    /\ next_index < Len(providers)
    /\ all_provider_errors' = RecordedErrors(e)
    /\ loop_i' = loop_i + 1
    /\ turn0' = [turn0 EXCEPT !.provider = ProviderName(next_index)]
    /\ events' = Append(events, FailoverEvent(ProviderName(next_index)))
    /\ attempt' = 0
    /\ first_chunk' = TRUE
    /\ UNCHANGED <<pc, raised, outcome, active_provider_index>>

\* The provider raises, the error is not retried and it was the last provider:
\* the index is reset, the collected errors are yielded and route raises.
RaiseExhausted(e) ==
    /\ ~should_retry(e, attempt)
    /\ loop_i + 1 >= num_providers
    /\ all_provider_errors' = RecordedErrors(e)
    /\ active_provider_index' = 0
    /\ events' = Append(events, AllFailedNotice(all_provider_errors'))
    /\ raised' = FailoverExhausted
    /\ outcome' = "exhausted"
    /\ pc' = "raised"
    /\ UNCHANGED <<loop_i, attempt, first_chunk, turn0>>

\* provider.generate raises: the except clause of route.
StreamRaise ==
    /\ pc = "stream"
    /\ \E e \in ErrorsOf(current_provider) :
        /\ is_transient_phrased(e) => n_raised.transient < fault_budget
        /\ last_error' = e
        /\ n_raised' = CountRaised(e)
        /\ \/ RaiseRetry(e)
           \/ RaiseFailover(e)
           \/ RaiseExhausted(e)
    /\ contacted' = contacted \cup {actual_index}
    /\ UNCHANGED <<start_index, chunks_out>>
    /\ UNCHANGED <<providers, session_usage, session_budget, history, fault_budget,
                   ctxVars, tool_runs, mcpVars>>

\* The caller is done with the call; the next call starts afresh.
RouteFinished ==
    /\ pc \in {"returned", "raised"}
    /\ TurnReset
    /\ UNCHANGED <<routerVars, ctxVars, tool_runs, mcpVars>>

\* Router.reload_providers: the provider list is rebuilt from the
\* configuration; active_provider_index is left as it is.
ReloadProviders ==
    /\ pc = "idle"
    /\ \E ps \in ProviderLists :
        /\ ps # providers
        /\ providers' = ps
    /\ UNCHANGED <<active_provider_index, session_usage, session_budget, history,
                   fault_budget>>
    /\ UNCHANGED <<turnVars, ctxVars, tool_runs, mcpVars>>

\* Router.reset_provider
ResetProvider ==
    /\ pc = "idle"
    /\ active_provider_index # 0
    /\ active_provider_index' = 0
    /\ UNCHANGED <<providers, session_usage, session_budget, history, fault_budget>>
    /\ UNCHANGED <<turnVars, ctxVars, tool_runs, mcpVars>>

Next ==
    \/ RouteBegin
    \/ SummarizeNothing
    \/ SummarizeIndexError
    \/ SummarizeSucceeds
    \/ SummarizeEmpty
    \/ SummarizeFails
    \/ RouteSetup
    \/ StreamText
    \/ StreamUsage
    \/ StreamEnd
    \/ StreamRaise
    \/ RouteFinished
    \/ ReloadProviders
    \/ ResetProvider

-----------------------------------------------------------------------------
(* mcp/client.py: MCPClient, and the tool dispatch of PlexirApp *)

\* Most send_request calls made on the client.
MaxCallers == 2

Callers == 1..MaxCallers

\* Most responses the server writes for one request id.
MaxAnswers == 2

\* Most lines the server writes that are no JSON-RPC message.
MaxNoise == 1

\* Most tools run that the client does not own.
MaxLocalRuns == 1

\* The requests made: the catalogue fetch of refresh_tools and the tools/call
\* of DynamicMCPTool.run.
Methods == {"tools/list", "tools/call"}

\* Router.load_base_tools: a tool of the base set
BaseTools == {"read_file"}

\* The tool definitions of the server's tools/list result: one with an
\* input schema, one whose schema pydantic cannot rebuild a model from, and
\* one without inputSchema.
ToolDefinitions ==
    { [name |-> "remote_tool", inputSchema |-> "object"],
      [name |-> "odd_tool", inputSchema |-> "unparsable"],
      [name |-> "bare_tool", inputSchema |-> "none"] }

\* _register_mcp_tools: "if not name or not input_schema: ... continue"
Registrable(tool_def) == tool_def.name # "" /\ tool_def.inputSchema # "none"

\* The tools _register_mcp_tools registers for the server; a schema that cannot
\* be rebuilt leaves args_schema None and the tool is registered all the same.
RemoteTools == { tool_def.name : tool_def \in { d \in ToolDefinitions : Registrable(d) } }

\* _register_prompt_tool: the tool registered when the server lists prompts
PromptTools == {"mcp_server_prompts"}

\* The catalogue requests of connect: refresh_tools and refresh_prompts
\* (refresh_resources sends resources/list and resources/templates/list the
\* way refresh_prompts sends prompts/list).
Catalogue == {"tools/list", "prompts/list"}

\* A response line: the id it carries, its serial among the responses for
\* that id, and whether it holds "result", "error" or neither.
Response(id, n, body) == [id |-> id, n |-> n, body |-> body]

NoPayload == Response(0, 0, "")

Bodies == {"result", "error", "ack"}

\* A send_request call: st is where the caller stands, id the req_id it drew,
\* future the state of its asyncio.Future, payload the response that resolved
\* the future, outcome what send_request returned or raised.
NewCall ==
    [st |-> "idle", id |-> 0, method |-> "", future |-> "none",
     payload |-> NoPayload, outcome |-> ""]

EmptyTable == [i \in {} |-> 0]

\* del table[k] / table.pop(k)
Remove(table, k) == [i \in DOMAIN table \ {k} |-> table[i]]

\* MCPClient.__init__, and the registry with the base tools loaded
MCPInit ==
    /\ mcp_running = FALSE
    /\ mcp_request_id = 0
    /\ mcp_pending = EmptyTable
    /\ mcp_calls = [c \in Callers |-> NewCall]
    /\ mcp_read = "not_started"
    /\ mcp_process = "none"
    /\ mcp_answered = [i \in Callers |-> 0]
    /\ mcp_noise = <<>>
    /\ mcp_closed_by = ""
    /\ mcp_connect = [st |-> "none", wrote |-> <<>>]
    /\ registry = BaseTools

\* PlexirApp: no tool dispatched yet
AppInit == tool_runs = <<>>

\* The model message and the user message generate_response appends for a
\* tool call: a function_call part and a function_response part with the
\* same id.
ToolCallMessage(call) ==
    [id |-> 0, role |-> "model", pinned |-> FALSE, hasContent |-> FALSE, content |-> 0,
     hasParts |-> TRUE,
     parts |-> <<[kind |-> "function_call", len |-> 51, dlen |-> 34, call |-> call]>>]

ToolResultMessage(call) ==
    [id |-> 0, role |-> "user", pinned |-> FALSE, hasContent |-> FALSE, content |-> 0,
     hasParts |-> TRUE,
     parts |-> <<[kind |-> "function_response", len |-> 60, dlen |-> 40, call |-> call]>>]

\* What a failed send_request leaves of DynamicMCPTool.run, execute_tool and
\* generate_response: an Exception becomes the text of the tool result,
\* CancelledError is no Exception and leaves all three.
Escapes(failure) == failure = "CancelledError"

\* generate_response after execute_tool: the function_call and
\* function_response messages are appended and generation goes on, unless the
\* failure left generate_response.
ToolDispatched(tool, failure) ==
    /\ tool_runs' = Append(tool_runs,
          [tool |-> tool, failure |-> failure, ended |-> Escapes(failure)])
    /\ history' = IF Escapes(failure) THEN history
                  ELSE history \o <<ToolCallMessage(Len(tool_runs) + 1),
                                    ToolResultMessage(Len(tool_runs) + 1)>>

\* What the caller of send_request does with its outcome: refresh_tools
\* registers the tools listed, DynamicMCPTool.run hands its text to the app.
Continue(method, result, body) ==
    /\ registry' = IF method = "tools/list" /\ result = "result" /\ body = "result"
                   THEN registry \cup RemoteTools
                   ELSE IF method = "prompts/list" /\ result = "result" /\ body = "result"
                   THEN registry \cup PromptTools
                   ELSE registry
    /\ IF method = "tools/call"
       THEN ToolDispatched("remote_tool", IF result = "result" THEN "" ELSE result)
       ELSE UNCHANGED <<tool_runs, history>>

\* MCPClient.connect: the server process is started and the read loop with it.
Connect ==
    /\ mcp_process = "none"
    /\ mcp_process' = "running"
    /\ mcp_running' = TRUE
    /\ mcp_read' = "reading"
    /\ UNCHANGED <<mcp_request_id, mcp_pending, mcp_calls, mcp_answered, mcp_noise,
                   registry, tool_runs>>
    /\ UNCHANGED <<routerVars, turnVars, ctxVars>>
    /\ UNCHANGED <<mcp_closed_by, mcp_connect>>

\* send_request with the id read but the counter not advanced.
NextRequestId_not_advanced == IF mcp_request_id = 0 THEN 1 ELSE mcp_request_id

\* send_request: self._request_id += 1; req_id = self._request_id
NextRequestId == mcp_request_id + 1

\* send_request on a client that is not running: RuntimeError
SendNotConnected(c, method) ==
    /\ ~mcp_running
    /\ mcp_calls' = [mcp_calls EXCEPT ![c] =
          [NewCall EXCEPT !.st = "done", !.method = method, !.outcome = "RuntimeError"]]
    /\ Continue(method, "RuntimeError", "")
    /\ UNCHANGED <<mcp_running, mcp_request_id, mcp_pending, mcp_read, mcp_process,
                   mcp_answered, mcp_noise>>

\* send_request up to wait_for: the id is drawn, the future is put in the
\* table and the payload is written.
SendWritten(c, method) ==
    /\ mcp_running
    /\ mcp_request_id' = NextRequestId
    /\ mcp_pending' = (NextRequestId :> c) @@ mcp_pending
    /\ mcp_calls' = [mcp_calls EXCEPT ![c] =
          [NewCall EXCEPT !.st = "waiting", !.id = NextRequestId, !.method = method,
                          !.future = "pending"]]
    /\ UNCHANGED <<mcp_running, mcp_read, mcp_process, mcp_answered, mcp_noise,
                   registry, tool_runs, history>>

\* send_request when _write_json raises (the server has gone): the error
\* leaves send_request and the future stays in the table.
SendWriteFails(c, method) ==
    /\ mcp_running
    /\ mcp_process = "exited"
    /\ mcp_request_id' = NextRequestId
    /\ mcp_pending' = (NextRequestId :> c) @@ mcp_pending
    /\ mcp_calls' = [mcp_calls EXCEPT ![c] =
          [NewCall EXCEPT !.st = "done", !.id = NextRequestId, !.method = method,
                          !.future = "pending", !.outcome = "ConnectionError"]]
    /\ Continue(method, "ConnectionError", "")
    /\ UNCHANGED <<mcp_running, mcp_read, mcp_process, mcp_answered, mcp_noise>>

\* A caller calls send_request; a tools/call is made for a registered tool.
SendRequest ==
    /\ \E c \in Callers, method \in Methods :
        /\ mcp_calls[c].st = "idle"
        /\ \A d \in Callers : d < c => mcp_calls[d].st # "idle"
        /\ method = "tools/call" => RemoteTools \subseteq registry
        /\ \/ SendNotConnected(c, method)
           \/ SendWritten(c, method)
           \/ SendWriteFails(c, method)
    /\ UNCHANGED <<routerRest, turnVars, ctxVars>>
    /\ UNCHANGED <<mcp_closed_by, mcp_connect>>

\* send_request: wait_for returns the result of the future or raises its
\* exception; a cancelled future raises CancelledError.
AwaitReturns ==
    /\ \E c \in Callers :
        /\ mcp_calls[c].st = "waiting"
        /\ mcp_calls[c].future \in {"result", "exception", "cancelled"}
        /\ LET raises == CASE mcp_calls[c].future = "result" -> "result"
                            [] mcp_calls[c].future = "exception" -> "JSONRPCError"
                            [] OTHER -> "CancelledError"
           IN  /\ mcp_calls' = [mcp_calls EXCEPT ![c].st = "done", ![c].outcome = raises]
               /\ Continue(mcp_calls[c].method, raises, mcp_calls[c].payload.body)
    /\ UNCHANGED <<mcp_running, mcp_request_id, mcp_pending, mcp_read, mcp_process,
                   mcp_answered, mcp_noise>>
    /\ UNCHANGED <<routerRest, turnVars, ctxVars>>
    /\ UNCHANGED <<mcp_closed_by, mcp_connect>>

\* The caller that awaits send_request is cancelled (action_interrupt_or_quit
\* cancels the generation worker during a tool call): wait_for cancels the
\* future and CancelledError leaves send_request; no clause of send_request
\* removes the entry from the table.
CallerCancelled ==
    /\ \E c \in Callers :
        /\ mcp_calls[c].st = "waiting"
        /\ mcp_calls[c].method = "tools/call"
        /\ mcp_calls[c].future = "pending"
        /\ mcp_calls' = [mcp_calls EXCEPT ![c].st = "done", ![c].future = "cancelled",
                                          ![c].outcome = "CancelledError"]
        /\ Continue("tools/call", "CancelledError", "")
    /\ UNCHANGED <<mcp_running, mcp_request_id, mcp_pending, mcp_read, mcp_process,
                   mcp_answered, mcp_noise>>
    /\ UNCHANGED <<routerRest, turnVars, ctxVars>>
    /\ UNCHANGED <<mcp_closed_by, mcp_connect>>

\* wait_for: the 30 seconds pass with the future not done; wait_for cancels
\* the future, and the caller resumes in a later step of the event loop.
TimeoutFires ==
    /\ \E c \in Callers :
        /\ mcp_calls[c].st = "waiting"
        /\ mcp_calls[c].future = "pending"
        /\ mcp_calls' = [mcp_calls EXCEPT ![c].st = "timing_out", ![c].future = "cancelled"]
    /\ UNCHANGED <<mcp_running, mcp_request_id, mcp_pending, mcp_read, mcp_process,
                   mcp_answered, mcp_noise, registry, tool_runs>>
    /\ UNCHANGED <<routerVars, turnVars, ctxVars>>
    /\ UNCHANGED <<mcp_closed_by, mcp_connect>>

\* send_request: "except asyncio.TimeoutError: del self._pending_requests[req_id]"
\* and TimeoutError; the del raises KeyError when the entry is gone.
TimeoutResumes ==
    /\ \E c \in Callers :
        /\ mcp_calls[c].st = "timing_out"
        /\ LET present == mcp_calls[c].id \in DOMAIN mcp_pending
               raises == IF present THEN "TimeoutError" ELSE "KeyError"
           IN  /\ mcp_pending' = Remove(mcp_pending, mcp_calls[c].id)
               /\ mcp_calls' = [mcp_calls EXCEPT ![c].st = "done", ![c].outcome = raises]
               /\ Continue(mcp_calls[c].method, raises, "")
    /\ UNCHANGED <<mcp_running, mcp_request_id, mcp_read, mcp_process, mcp_answered,
                   mcp_noise>>
    /\ UNCHANGED <<routerRest, turnVars, ctxVars>>
    /\ UNCHANGED <<mcp_closed_by, mcp_connect>>

\* disconnect without the cancellation of the pending futures.
disconnect_no_cancel(by) ==
    IF ~mcp_running
    THEN UNCHANGED <<mcp_running, mcp_calls, mcp_pending, mcp_process, mcp_closed_by>>
    ELSE /\ mcp_running' = FALSE
         /\ mcp_closed_by' = by
         /\ mcp_calls' = mcp_calls
         /\ mcp_pending' = EmptyTable
         /\ mcp_process' = IF mcp_process = "exited" THEN "exited" ELSE "terminated"

\* disconnect without "if not self.running: return".
disconnect_no_guard(by) ==
    /\ mcp_running' = FALSE
    /\ mcp_closed_by' = by
    /\ mcp_calls' = [c \in Callers |->
          IF (\E i \in DOMAIN mcp_pending : mcp_pending[i] = c)
             /\ mcp_calls[c].future = "pending"
          THEN [mcp_calls[c] EXCEPT !.future = "cancelled"]
          ELSE mcp_calls[c]]
    /\ mcp_pending' = EmptyTable
    /\ mcp_process' = IF mcp_process = "exited" THEN "exited" ELSE "terminated"

\* MCPClient.disconnect: nothing when not running; else running is cleared,
\* every future of the table is cancelled, the table is emptied and the
\* process is terminated.  The registry is not touched.
disconnect(by) ==
    IF ~mcp_running
    THEN UNCHANGED <<mcp_running, mcp_calls, mcp_pending, mcp_process, mcp_closed_by>>
    ELSE /\ mcp_running' = FALSE
         /\ mcp_closed_by' = by
         /\ mcp_calls' = [c \in Callers |->
               IF (\E i \in DOMAIN mcp_pending : mcp_pending[i] = c)
                  /\ mcp_calls[c].future = "pending"
               THEN [mcp_calls[c] EXCEPT !.future = "cancelled"]
               ELSE mcp_calls[c]]
         /\ mcp_pending' = EmptyTable
         /\ mcp_process' = IF mcp_process = "exited" THEN "exited" ELSE "terminated"

\* disconnect called by the owner of the client (Router.reload_providers, or
\* connect after a failure), whether or not the client is connected.
CallerDisconnect ==
    /\ disconnect("caller")
    /\ UNCHANGED <<mcp_request_id, mcp_read, mcp_answered, mcp_noise, registry, tool_runs,
                   mcp_connect>>
    /\ UNCHANGED <<routerVars, turnVars, ctxVars>>

\* The server process ends by itself; its stdout reaches EOF.
ServerExits ==
    /\ mcp_process = "running"
    /\ mcp_process' = "exited"
    /\ UNCHANGED <<mcp_running, mcp_request_id, mcp_pending, mcp_calls, mcp_read,
                   mcp_answered, mcp_noise, registry, tool_runs>>
    /\ UNCHANGED <<routerVars, turnVars, ctxVars>>
    /\ UNCHANGED <<mcp_closed_by, mcp_connect>>

ReadLoopReading == mcp_read = "reading" /\ mcp_running /\ mcp_process = "running"

\* The read loop resolving the oldest pending future, whatever the id read.
FutureOf_oldest(req_id) ==
    mcp_pending[CHOOSE i \in DOMAIN mcp_pending : \A j \in DOMAIN mcp_pending : i <= j]

\* _read_loop: future = self._pending_requests.pop(req_id)
FutureOf(req_id) == mcp_pending[req_id]

\* _read_loop reads a response line for a request the server has received.
\* The future under its id is popped and resolved; set_result and
\* set_exception raise InvalidStateError on a future that is done, which
\* ends the loop.  A response whose id is not in the table is dropped.
ReadResponse ==
    /\ ReadLoopReading
    /\ \E id \in 1..mcp_request_id, body \in Bodies :
        /\ mcp_answered[id] < MaxAnswers
        /\ mcp_answered' = [mcp_answered EXCEPT ![id] = @ + 1]
        /\ IF id \in DOMAIN mcp_pending
           THEN /\ mcp_pending' = Remove(mcp_pending, id)
                /\ IF mcp_calls[FutureOf(id)].future = "pending"
                   THEN /\ mcp_calls' = [mcp_calls EXCEPT ![FutureOf(id)] =
                              [@ EXCEPT !.future = IF body = "error" THEN "exception"
                                                   ELSE "result",
                                        !.payload = Response(id, mcp_answered'[id], body)]]
                        /\ mcp_read' = mcp_read
                   ELSE /\ mcp_calls' = mcp_calls
                        /\ mcp_read' = "ended"
           ELSE UNCHANGED <<mcp_pending, mcp_calls, mcp_read>>
    /\ UNCHANGED <<mcp_running, mcp_request_id, mcp_process, mcp_noise, registry, tool_runs>>
    /\ UNCHANGED <<routerVars, turnVars, ctxVars>>
    /\ UNCHANGED <<mcp_closed_by, mcp_connect>>

\* ReadNonJSON with the JSONDecodeError ending the loop.
AfterNonJSON_fatal == "ended"

\* _read_loop: "except json.JSONDecodeError: ... continue"
AfterNonJSON == "reading"

\* _read_loop reads a line that is no JSON.
ReadNonJSON ==
    /\ ReadLoopReading
    /\ Len(mcp_noise) < MaxNoise
    /\ mcp_noise' = Append(mcp_noise, "non_json")
    /\ mcp_read' = AfterNonJSON
    /\ UNCHANGED <<mcp_running, mcp_request_id, mcp_pending, mcp_calls, mcp_process,
                   mcp_answered, registry, tool_runs>>
    /\ UNCHANGED <<routerVars, turnVars, ctxVars>>
    /\ UNCHANGED <<mcp_closed_by, mcp_connect>>

\* _read_loop reads a line that is JSON but no object (a list, a number):
\* the test of "id" or message.get raises, "except Exception: break".
ReadNonObject ==
    /\ ReadLoopReading
    /\ Len(mcp_noise) < MaxNoise
    /\ mcp_noise' = Append(mcp_noise, "non_object")
    /\ mcp_read' = "ended"
    /\ UNCHANGED <<mcp_running, mcp_request_id, mcp_pending, mcp_calls, mcp_process,
                   mcp_answered, registry, tool_runs>>
    /\ UNCHANGED <<routerVars, turnVars, ctxVars>>
    /\ UNCHANGED <<mcp_closed_by, mcp_connect>>

\* _read_loop: "if not line: break # EOF", after the server has gone or the
\* process was terminated.
ReadEOF ==
    /\ mcp_read = "reading"
    /\ mcp_process \in {"exited", "terminated"}
    /\ mcp_read' = "ended"
    /\ UNCHANGED <<mcp_running, mcp_request_id, mcp_pending, mcp_calls, mcp_process,
                   mcp_answered, mcp_noise, registry, tool_runs>>
    /\ UNCHANGED <<routerVars, turnVars, ctxVars>>
    /\ UNCHANGED <<mcp_closed_by, mcp_connect>>

\* ReadLoopDisconnect without the call of disconnect.
ReadLoopDisconnect_returns ==
    /\ mcp_read = "ended"
    /\ mcp_read' = "done"
    /\ UNCHANGED <<mcp_running, mcp_calls, mcp_pending, mcp_process>>
    /\ UNCHANGED <<mcp_request_id, mcp_answered, mcp_noise, registry, tool_runs>>
    /\ UNCHANGED <<routerVars, turnVars, ctxVars>>
    /\ UNCHANGED <<mcp_closed_by, mcp_connect>>

\* _read_loop after the loop: "await self.disconnect()"
ReadLoopDisconnect ==
    /\ mcp_read = "ended"
    /\ mcp_read' = "done"
    /\ disconnect("read_loop")
    /\ UNCHANGED <<mcp_request_id, mcp_answered, mcp_noise, registry, tool_runs,
                   mcp_connect>>
    /\ UNCHANGED <<routerVars, turnVars, ctxVars>>

\* connect: send_request("initialize", ...), the first request of the client.
SendInitialize ==
    /\ mcp_process # "none"
    /\ mcp_connect.st = "none"
    /\ mcp_calls[1].st = "idle"
    /\ \/ /\ SendNotConnected(1, "initialize")
          /\ mcp_connect' = [mcp_connect EXCEPT !.st = "initialize"]
       \/ /\ SendWritten(1, "initialize")
          /\ mcp_connect' = [st |-> "initialize",
                             wrote |-> Append(mcp_connect.wrote, "initialize")]
       \/ /\ SendWriteFails(1, "initialize")
          /\ mcp_connect' = [mcp_connect EXCEPT !.st = "initialize"]
    /\ UNCHANGED <<routerRest, turnVars, ctxVars>>
    /\ UNCHANGED mcp_closed_by

\* connect may go on to the catalogue requests.
HandshakeReady_early == mcp_connect.st \in {"initialize", "notified"}

\* connect has passed "await self.send_notification('notifications/initialized')".
HandshakeReady == mcp_connect.st = "notified"

\* connect after send_request("initialize") has returned or raised.  A result
\* that is a dict is followed by the initialized notification, which
\* send_notification writes when the client is running (a failing write
\* raises) and drops silently when it is not.  A result that is no dict, a
\* JSON-RPC error, a timeout or a write error reaches "except Exception:
\* await self.disconnect()"; CancelledError (the future was cancelled by a
\* disconnect) leaves connect uncaught.
ConnectInitialized ==
    /\ mcp_connect.st = "initialize"
    /\ mcp_calls[1].st = "done"
    /\ IF mcp_calls[1].outcome = "result" /\ mcp_calls[1].payload.body = "result"
       THEN \/ /\ mcp_running
               /\ mcp_connect' = [st |-> "notified",
                     wrote |-> Append(mcp_connect.wrote, "notifications/initialized")]
               /\ UNCHANGED <<mcp_running, mcp_calls, mcp_pending, mcp_process,
                              mcp_closed_by>>
            \/ /\ mcp_running
               /\ mcp_process = "exited"
               /\ mcp_connect' = [mcp_connect EXCEPT !.st = "failed"]
               /\ disconnect("caller")
            \/ /\ ~mcp_running
               /\ mcp_connect' = [mcp_connect EXCEPT !.st = "notified"]
               /\ UNCHANGED <<mcp_running, mcp_calls, mcp_pending, mcp_process,
                              mcp_closed_by>>
       ELSE IF mcp_calls[1].outcome = "CancelledError"
       THEN /\ mcp_connect' = [mcp_connect EXCEPT !.st = "cancelled"]
            /\ UNCHANGED <<mcp_running, mcp_calls, mcp_pending, mcp_process,
                           mcp_closed_by>>
       ELSE /\ mcp_connect' = [mcp_connect EXCEPT !.st = "failed"]
            /\ disconnect("caller")
    /\ UNCHANGED <<mcp_request_id, mcp_read, mcp_answered, mcp_noise, registry, tool_runs>>
    /\ UNCHANGED <<routerVars, turnVars, ctxVars>>

\* connect: asyncio.gather(refresh_tools(), ..., refresh_prompts()): each
\* sends its catalogue request; the error of a request stays in its refresh.
RefreshCatalogue ==
    /\ HandshakeReady
    /\ \E c \in Callers \ {1}, method \in Catalogue :
        /\ mcp_calls[c].st = "idle"
        /\ \A d \in Callers : d < c => mcp_calls[d].st # "idle"
        /\ \A d \in Callers : mcp_calls[d].method # method
        /\ \/ /\ SendNotConnected(c, method)
              /\ UNCHANGED mcp_connect
           \/ /\ SendWritten(c, method)
              /\ mcp_connect' = [mcp_connect EXCEPT !.wrote = Append(@, method)]
           \/ /\ SendWriteFails(c, method)
              /\ UNCHANGED mcp_connect
    /\ UNCHANGED <<routerRest, turnVars, ctxVars>>
    /\ UNCHANGED mcp_closed_by

\* execute_tool for a tool no client owns, before any client is connected:
\* the name is unknown, or the tool raises, or it returns.
ExecuteLocalTool ==
    /\ mcp_process = "none"
    /\ Len(tool_runs) < MaxLocalRuns
    /\ \E run \in { [tool |-> "no_such_tool", failure |-> "not found"],
                    [tool |-> "read_file", failure |-> "Exception"],
                    [tool |-> "read_file", failure |-> ""] } :
          ToolDispatched(run.tool, run.failure)
    /\ UNCHANGED mcpVars
    /\ UNCHANGED <<routerRest, turnVars, ctxVars>>

-----------------------------------------------------------------------------
(* ui/app.py and core/commands.py: tool calls, /clear and /session pin *)

\* Most tools the providers call in a session.
MaxToolCalls == 2

\* generate_response: current_text_buffer holds text when a text chunk came in
\* this call of route.
TextBuffered == \E k \in 1..Len(chunks_out) : chunks_out[k].type = "text"

\* {"role": "model", "content": current_text_buffer}
ModelTextMessage ==
    [id |-> 0, role |-> "model", pinned |-> FALSE, hasContent |-> TRUE, content |-> 8,
     hasParts |-> FALSE, parts |-> <<>>]

\* The provider yields a tool_call chunk and route passes it on:
\* generate_response appends the buffered text and either asks for a
\* confirmation (critical tool) or starts the tool.
StreamToolCall ==
    /\ pc = "stream"
    /\ Len(chunks_out) < MaxChunks
    /\ Len(tool_runs) < MaxToolCalls
    /\ CommitOnFirstChunk
    /\ chunks_out' = Append(chunks_out, [type |-> "tool_call", total_cost_accumulated |-> 0])
    /\ history' = history \o (IF TextBuffered THEN <<ModelTextMessage>> ELSE <<>>)
    /\ pc' \in {"confirm", "execute"}
    /\ UNCHANGED <<start_index, loop_i, attempt, all_provider_errors, events, raised,
                   outcome, turn0, last_error, n_raised>>
    /\ UNCHANGED <<providers, session_usage, session_budget, fault_budget, ctxVars,
                   tool_runs, mcpVars>>

\* generate_response with the result of the tool call: the function_call and
\* function_response messages are appended one after the other, with no
\* await between them, and the stream is left to call route again.
ToolResultAppended(failure) ==
    /\ tool_runs' = Append(tool_runs,
          [tool |-> "read_file", failure |-> failure, ended |-> FALSE])
    /\ history' = history \o <<ToolCallMessage(Len(tool_runs) + 1),
                               ToolResultMessage(Len(tool_runs) + 1)>>
    /\ pc' = "returned"
    /\ outcome' = "tool_call"

\* generate_response after a tool call: "while True" calls route again with
\* the history that holds the tool's result; the call starts as every route
\* call does, with the budget check and the test for summarization.
RestartAfterTool ==
    /\ pc = "returned"
    /\ outcome = "tool_call"
    /\ turn0' = [budget |-> session_budget, cost |-> session_usage.total_cost,
                  providers |-> <<>>, provider |-> "",
                  after_tool |-> current_provider]
    /\ IF budget_exceeded(session_budget, session_usage.total_cost)
       THEN /\ events' = <<BudgetNotice>>
            /\ outcome' = "budget"
            /\ pc' = "returned"
       ELSE IF Len(history) > MAX_HISTORY_MESSAGES
       THEN /\ events' = <<SummarizingEvent>>
            /\ outcome' = ""
            /\ pc' = "summarize"
       ELSE /\ events' = <<>>
            /\ outcome' = ""
            /\ pc' = "setup"
    /\ start_index' = 0
    /\ loop_i' = 0
    /\ attempt' = 0
    /\ first_chunk' = TRUE
    /\ all_provider_errors' = <<>>
    /\ chunks_out' = <<>>
    /\ contacted' = {}
    /\ last_error' = NoError
    /\ n_raised' = [transient |-> 0, other |-> 0]
    /\ UNCHANGED raised
    /\ UNCHANGED <<routerVars, ctxVars, tool_runs, mcpVars>>

\* push_screen_wait(ConfirmToolCall(...)) returns "stop" (the turn ends),
\* "skip" (the result is "Action skipped by user.") or "confirm".
ConfirmAnswered ==
    /\ pc = "confirm"
    /\ \/ /\ pc' = "returned"
          /\ outcome' = "stopped"
          /\ UNCHANGED <<history, tool_runs>>
       \/ ToolResultAppended("")
       \/ /\ pc' = "execute"
          /\ UNCHANGED <<history, tool_runs, outcome>>
    /\ UNCHANGED <<start_index, loop_i, attempt, first_chunk, all_provider_errors,
                   events, chunks_out, raised, turn0, contacted, last_error, n_raised>>
    /\ UNCHANGED <<providers, active_provider_index, session_usage, session_budget,
                   fault_budget, ctxVars, mcpVars>>

\* execute_tool returns the tool's result or the text of its failure.
ToolExecuted ==
    /\ pc = "execute"
    /\ \E failure \in {"", "Exception"} : ToolResultAppended(failure)
    /\ UNCHANGED <<start_index, loop_i, attempt, first_chunk, all_provider_errors,
                   events, chunks_out, raised, turn0, contacted, last_error, n_raised>>
    /\ UNCHANGED <<providers, active_provider_index, session_usage, session_budget,
                   fault_budget, ctxVars, mcpVars>>

\* asyncio.CancelledError raised in the generation worker
CancelledRaised == [type |-> "CancelledError", names |-> {}]

\* action_interrupt_or_quit: generation_worker.cancel() while the worker
\* awaits the summary, a chunk, the confirmation or the tool.
CancelTurn ==
    /\ pc \in {"summarize", "stream", "confirm", "execute"}
    /\ pc' = "raised"
    /\ raised' = CancelledRaised
    /\ outcome' = "cancelled"
    /\ UNCHANGED <<start_index, loop_i, attempt, first_chunk, all_provider_errors,
                   events, chunks_out, turn0, contacted, last_error, n_raised>>
    /\ UNCHANGED <<routerVars, ctxVars, tool_runs, mcpVars>>

\* Router.reload_providers called while the generation worker awaits the
\* provider, or the mount of the next text widget after a tool call (/reload,
\* /config set or ctrl+r during generation): self.providers is rebuilt; route
\* keeps its num_providers and the provider it holds.
ReloadMidTurn ==
    /\ \/ pc = "stream"
       \/ pc = "returned" /\ outcome = "tool_call"
    /\ \E ps \in ProviderLists :
        /\ ps # providers
        /\ providers' = ps
    /\ UNCHANGED <<active_provider_index, session_usage, session_budget, history,
                   fault_budget>>
    /\ UNCHANGED <<turnVars, ctxVars, tool_runs, mcpVars>>

\* route after a provider is given up: "provider = self.providers[actual_index]"
\* of the next round, with actual_index past the end of the rebuilt list.
StreamRaiseIndexError ==
    /\ pc = "stream"
    /\ \E e \in ErrorsOf(current_provider) :
        /\ is_transient_phrased(e) => n_raised.transient < fault_budget
        /\ ~should_retry(e, attempt)
        /\ loop_i + 1 < num_providers
        /\ next_index >= Len(providers)
        /\ last_error' = e
        /\ n_raised' = CountRaised(e)
        /\ all_provider_errors' = RecordedErrors(e)
    /\ loop_i' = loop_i + 1
    /\ contacted' = contacted \cup {actual_index}
    /\ raised' = IndexErrorRaised
    /\ outcome' = "error"
    /\ pc' = "raised"
    /\ UNCHANGED <<start_index, attempt, first_chunk, events, chunks_out, turn0>>
    /\ UNCHANGED <<routerVars, ctxVars, tool_runs, mcpVars>>

\* _clear with the usage counters zeroed as well.
ClearChat_resets_usage ==
    /\ pc = "idle"
    /\ history # <<>>
    /\ history' = <<>>
    /\ active_provider_index' = 0
    /\ session_usage' = [prompt_tokens |-> 0, completion_tokens |-> 0,
                         total_tokens |-> 0, total_cost |-> 0]
    /\ UNCHANGED <<providers, session_budget, fault_budget>>
    /\ UNCHANGED <<turnVars, ctxVars, tool_runs, mcpVars>>

\* CommandProcessor._clear: the history is emptied and the provider reset.
ClearChat ==
    /\ pc = "idle"
    /\ history # <<>>
    /\ history' = <<>>
    /\ active_provider_index' = 0
    /\ UNCHANGED <<providers, session_usage, session_budget, fault_budget>>
    /\ UNCHANGED <<turnVars, ctxVars, tool_runs, mcpVars>>

\* The indexes given to /session pin and /session unpin (as typed, from 1).
PinIndexes == {3, 99}

\* "if 0 <= idx < len(self.app.history): self.app.history[idx]['pinned'] = flag"
\* with idx = index - 1
SetPinned(hist, index, flag) ==
    IF 0 <= index - 1 /\ index - 1 < Len(hist)
    THEN [hist EXCEPT ![index].pinned = flag]
    ELSE hist

\* /session pin <index>
PinMessage ==
    /\ pc = "idle"
    /\ \E index \in PinIndexes : history' = SetPinned(history, index, TRUE)
    /\ UNCHANGED <<providers, active_provider_index, session_usage, session_budget,
                   fault_budget>>
    /\ UNCHANGED <<turnVars, ctxVars, tool_runs, mcpVars>>

\* /session unpin <index>
UnpinMessage ==
    /\ pc = "idle"
    /\ \E index \in PinIndexes : history' = SetPinned(history, index, FALSE)
    /\ UNCHANGED <<providers, active_provider_index, session_usage, session_budget,
                   fault_budget>>
    /\ UNCHANGED <<turnVars, ctxVars, tool_runs, mcpVars>>

-----------------------------------------------------------------------------
(* Specifications *)

\* The Router with its providers, between and during route calls; no context
\* function is called on its own.
Init == RouterInit /\ ContextInit /\ AppInit /\ MCPInit

Spec == Init /\ [][Next]_vars

\* The Router with at least one provider, no budget and a short history, and
\* providers that raise transient errors up to the retry ceiling and beyond.
InitRetry ==
    /\ providers \in ProviderLists \ {<<>>}
    /\ active_provider_index = 0
    /\ session_usage = [prompt_tokens |-> 0, completion_tokens |-> 0,
                        total_tokens |-> 0, total_cost |-> 0]
    /\ session_budget = 0
    /\ history = [k \in 1..2 |-> MakeMessage(ShortMessage, k, FALSE)]
    /\ fault_budget = (max_retries + 1) * Len(AllProviders)
    /\ TurnIdle
    /\ ContextInit
    /\ AppInit
    /\ MCPInit

NextRetry ==
    \/ RouteBegin
    \/ RouteSetup
    \/ StreamText
    \/ StreamUsage
    \/ StreamEnd
    \/ StreamRaise
    \/ RouteFinished
    \/ ReloadProviders
    \/ ResetProvider

SpecRetry == InitRetry /\ [][NextRetry]_vars

\* The steps of a route call that is under way: the consumer iterates the
\* generator, every provider stream is finite and every backoff sleep ends.
RouteStep ==
    \/ RouteSetup
    \/ StreamText
    \/ StreamUsage
    \/ StreamEnd
    \/ StreamRaise

\* SpecRetry with a route call that is under way going on to its next step.
SpecRetryFair ==
    /\ InitRetry
    /\ [][NextRetry]_vars
    /\ WF_vars(RouteStep)

\* The context functions, each called once on every input; the Router as
\* constructed.
InitContext ==
    /\ ContextInit
    /\ providers = <<>>
    /\ active_provider_index = 0
    /\ session_usage = [prompt_tokens |-> 0, completion_tokens |-> 0,
                        total_tokens |-> 0, total_cost |-> 0]
    /\ session_budget = 0
    /\ history = <<>>
    /\ fault_budget = 0
    /\ TurnIdle
    /\ AppInit
    /\ MCPInit

NextContext ==
    \/ CallEstimateTokenCount
    \/ CallGetMessagesToSummarize
    \/ CallEnforceContextLimit
    \/ CallDistill

SpecContext == InitContext /\ [][NextContext]_vars

\* One MCPClient with its server and the callers of send_request, and the
\* tools the app runs; the Router as constructed, with a short history.  The
\* event loop runs the read loop when it can.
InitMCP ==
    /\ MCPInit
    /\ AppInit
    /\ ContextInit
    /\ providers = <<>>
    /\ active_provider_index = 0
    /\ session_usage = [prompt_tokens |-> 0, completion_tokens |-> 0,
                        total_tokens |-> 0, total_cost |-> 0]
    /\ session_budget = 0
    /\ history = [k \in 1..2 |-> MakeMessage(ShortMessage, k, FALSE)]
    /\ fault_budget = 0
    /\ TurnIdle

NextMCP ==
    \/ Connect
    \/ SendRequest
    \/ AwaitReturns
    \/ TimeoutFires
    \/ TimeoutResumes
    \/ CallerCancelled
    \/ CallerDisconnect
    \/ ServerExits
    \/ ReadResponse
    \/ ReadNonJSON
    \/ ReadNonObject
    \/ ReadEOF
    \/ ReadLoopDisconnect
    \/ ExecuteLocalTool

SpecMCP ==
    /\ InitMCP
    /\ [][NextMCP]_vars
    /\ WF_vars(ReadEOF)
    /\ WF_vars(ReadLoopDisconnect)

\* MCPClient.connect with its handshake, the read loop and the server.
NextHandshake ==
    \/ Connect
    \/ SendInitialize
    \/ ConnectInitialized
    \/ RefreshCatalogue
    \/ AwaitReturns
    \/ TimeoutFires
    \/ TimeoutResumes
    \/ ServerExits
    \/ ReadResponse
    \/ ReadNonJSON
    \/ ReadNonObject
    \/ ReadEOF
    \/ ReadLoopDisconnect

SpecHandshake == InitMCP /\ [][NextHandshake]_vars

\* A session of the application: the Router with a provider, the tool calls
\* generate_response dispatches and the /clear and /session pin commands.
\* The session starts with a short history, or with a history longer than
\* MAX_HISTORY_MESSAGES in which a tool was called early on, or with one that
\* long whose old messages are all pinned.
SessionHistories ==
    { [k \in 1..2 |-> MakeMessage(ShortMessage, k, FALSE)],
      [k \in 1..(MAX_HISTORY_MESSAGES + 1) |->
          MakeMessage(ShortMessage, k, k <= MAX_HISTORY_MESSAGES + 1 - KEEP_RECENT)],
      [k \in 1..(MAX_HISTORY_MESSAGES + 1) |->
          IF k = 3 THEN ToolCallMessage(1)
          ELSE IF k = 4 THEN ToolResultMessage(1)
          ELSE MakeMessage(ShortMessage, k, FALSE)] }

InitSession ==
    /\ providers \in ProviderLists \ {<<>>}
    /\ active_provider_index = 0
    /\ session_usage = [prompt_tokens |-> 0, completion_tokens |-> 0,
                        total_tokens |-> 0, total_cost |-> 0]
    /\ session_budget = 0
    /\ history \in SessionHistories
    /\ tool_runs = IF Len(history) > 2 /\ history[3] = ToolCallMessage(1)
                   THEN <<[tool |-> "read_file", failure |-> "", ended |-> FALSE]>>
                   ELSE <<>>
    /\ fault_budget = 1
    /\ TurnIdle
    /\ ContextInit
    /\ MCPInit

NextSession ==
    \/ RouteBegin
    \/ SummarizeNothing
    \/ SummarizeIndexError
    \/ SummarizeSucceeds
    \/ SummarizeEmpty
    \/ SummarizeFails
    \/ RouteSetup
    \/ StreamText
    \/ StreamUsage
    \/ StreamToolCall
    \/ ConfirmAnswered
    \/ ToolExecuted
    \/ RestartAfterTool
    \/ CancelTurn
    \/ ReloadMidTurn
    \/ StreamRaiseIndexError
    \/ StreamEnd
    \/ StreamRaise
    \/ RouteFinished
    \/ ReloadProviders
    \/ ResetProvider
    \/ ClearChat
    \/ PinMessage
    \/ UnpinMessage

SpecSession == InitSession /\ [][NextSession]_vars

-----------------------------------------------------------------------------
(* Properties of the context functions (checked under SpecContext) *)

IsIn(m, s) == \E k \in 1..Len(s) : s[k] = m

\* C7: get_messages_to_summarize never puts a pinned message in to_summarize,
\* and puts each of the last 10 messages of the history (all of them when the
\* history has 10 or fewer) in to_keep, whatever their pin state.
C7_PinnedAndRecentKept ==
    c_call.op = "split" =>
        /\ \A k \in 1..Len(c_result.to_summarize) : ~c_result.to_summarize[k].pinned
        /\ \A j \in 1..Len(c_history) :
              j > Len(c_history) - 10 => IsIn(c_history[j], c_result.to_keep)

\* C7 witness: a history longer than 10 with a pinned and an unpinned message
\* among the old ones and a pinned one among the recent, split with count 1.
C7_Witness ==
    /\ c_call.op = "split"
    /\ c_call.count = 1
    /\ Len(c_history) = 12
    /\ c_history[1].pinned /\ ~c_history[2].pinned /\ c_history[12].pinned
    /\ Len(c_result.to_summarize) = 1

EnforceCalled == c_call.op = "enforce"

CurrentTokens == estimate_list(c_history) + estimate_str(c_call.sys)

\* C8: enforce_context_limit returns the history unchanged whenever the
\* estimate of history plus system instruction is at most the limit, and
\* whenever the limit is None, zero or negative.
C8_UnchangedWithinLimit ==
    (EnforceCalled /\ (c_call.limit.none \/ c_call.limit.val <= 0
                       \/ CurrentTokens <= c_call.limit.val))
        => c_result.history = c_history

\* C8 witness: a non-empty history whose estimate equals a positive limit.
C8_Witness ==
    /\ EnforceCalled
    /\ ~c_call.limit.none /\ c_call.limit.val > 0
    /\ c_history # <<>>
    /\ CurrentTokens = c_call.limit.val
    /\ c_result.history = c_history

\* C9: for a positive limit and a history whose estimate exceeds it, the
\* history returned fits the limit together with the system instruction, or
\* is empty.
C9_ResultFitsLimit ==
    (EnforceCalled /\ ~c_call.limit.none /\ c_call.limit.val > 0
                   /\ CurrentTokens > c_call.limit.val)
        => \/ estimate_list(c_result.history) + estimate_str(c_call.sys)
                  <= c_call.limit.val
           \/ c_result.history = <<>>

\* C9 witness: the summary path with a summary that renders older messages
\* (longer than the note and the sentinel).
C9_Witness ==
    /\ EnforceCalled
    /\ c_result.path = "summary"
    /\ c_result.history[1].id = 0
    /\ c_result.history[1].content > LEN_SYSTEM_NOTE + LEN_SENTINEL
    /\ Len(c_result.history) = 5

\* The tail-truncation path of C9: messages dropped from the kept tail.
C9_WitnessTruncated ==
    /\ EnforceCalled
    /\ c_result.path = "truncated"
    /\ Len(c_result.history) \in 1..2
    /\ Len(c_history) > 4

\* C10: estimate_token_count counts 1 token per 4 characters and the estimate
\* of a list of messages is the sum of the estimates of each message alone.
C10_EstimateAdditive ==
    /\ estimate_str(4) = 1
    /\ estimate_str(8) = 2
    /\ c_call.op = "estimate" => c_result.tokens = SumSeq(c_result.each)

-----------------------------------------------------------------------------
(* Properties of Router.route *)

EventsOfType(t) == SelectSeq(events, LAMBDA ev : ev.type = t)

Succeeded == pc = "returned" /\ outcome = "success"

Exhausted == pc = "raised" /\ outcome = "exhausted"

\* C1 (SpecRetry): when the active provider raises k transient errors, k
\* fewer than the retry ceiling of 10, and then succeeds, the turn has
\* yielded exactly k RETRY events, for that provider, with attempts 1..k in
\* order, no FAILOVER event, and active_provider_index is still that provider.
C1_RetriesThenSuccess ==
    (Succeeded /\ n_raised.other = 0 /\ n_raised.transient < 10) =>
        LET r == EventsOfType("retry")
        IN  /\ Len(r) = n_raised.transient
            /\ \A k \in 1..Len(r) :
                  r[k].attempt = k /\ r[k].provider = ProviderName(start_index)
            /\ EventsOfType("failover") = <<>>
            /\ active_provider_index = start_index

\* C1 witness: the second provider is active, raises 9 transient errors and
\* then succeeds without having yielded anything.
C1_Witness ==
    /\ Succeeded
    /\ start_index = 1
    /\ n_raised = [transient |-> 9, other |-> 0]
    /\ Len(EventsOfType("retry")) = 9
    /\ chunks_out = <<>>

HardPhrased(e) == (e.phrases \cap {"quota", "daily"}) # {}

TransientPhrased(e) ==
    (e.phrases \cap {"429", "rate limit", "too many requests",
                     "500", "502", "503", "504"}) # {}

\* The case of C2: provider start_index, not the last of the list, was given
\* up on a hard-exhaustion error (quota or daily phrasing, or an error of no
\* class, which route treats alike) and the next provider succeeded on its
\* first attempt.
C2_Case ==
    /\ Succeeded
    /\ start_index < Len(providers) - 1
    /\ Len(all_provider_errors) = 1
    /\ n_raised.other = 1
    /\ (HardPhrased(last_error) \/ ~TransientPhrased(last_error))
    /\ attempt = 0

C2_Consequent ==
    /\ Len(EventsOfType("failover")) = 1
    /\ EventsOfType("failover")[1].provider = ProviderName(start_index + 1)
    /\ active_provider_index = start_index + 1

\* C2 as claimed: in that case exactly one FAILOVER event was yielded, it
\* names provider i+1, and active_provider_index is i+1.
C2_Original == C2_Case => C2_Consequent

\* C2 as amended: the same, when the stream of provider i+1 has yielded at
\* least one chunk.
C2_FailoverThenSuccess == (C2_Case /\ ~first_chunk) => C2_Consequent

\* C2 witness: the first provider gave up on an exhausted quota and the
\* second one streamed a chunk and ended.
C2_Witness ==
    /\ C2_Case
    /\ ~first_chunk
    /\ HardPhrased(last_error)
    /\ start_index = 0
    /\ active_provider_index = 1
    /\ Len(chunks_out) = 1

\* The providers tried in a turn, in the order of the outer loop.
TriedInOrder ==
    [k \in 1..Len(providers) |-> ProviderName((start_index + k - 1) % Len(providers))]

\* C3 as claimed: when every provider has failed, the error route raises
\* names every provider attempted.
C3_Original ==
    Exhausted => \A k \in 1..Len(providers) : providers[k] \in raised.names

\* C3 as amended: when every provider has failed, the last thing route has
\* yielded is a message that lists every provider attempted, one entry each in
\* the order tried, and the error it raises is the RuntimeError "Failover
\* exhausted.".
C3_AllFailedListsProviders ==
    Exhausted =>
        /\ raised = FailoverExhausted
        /\ events # <<>>
        /\ events[Len(events)].type = "all_failed"
        /\ [k \in 1..Len(events[Len(events)].errors) |->
               events[Len(events)].errors[k].provider] = TriedInOrder
        /\ contacted = 0..(Len(providers) - 1)

\* C3 witness: two providers, the second one tried first, both given up.
C3_Witness ==
    /\ Exhausted
    /\ Len(providers) = 2
    /\ start_index = 1
    /\ Len(events[Len(events)].errors) = 2

\* C4: a call is stopped by the budget check exactly when budget > 0 and
\* total_cost >= budget at its start; a stopped call has yielded the one
\* budget notice and nothing else, has contacted no provider and has raised
\* nothing; with budget 0 no call is stopped.
C4_BudgetStop ==
    pc # "idle" =>
        /\ (outcome = "budget") <=> (turn0.budget > 0 /\ turn0.cost >= turn0.budget)
        /\ outcome = "budget" =>
              /\ events = <<BudgetNotice>>
              /\ chunks_out = <<>>
              /\ contacted = {}
              /\ pc = "returned"
              /\ raised = NoException
        /\ turn0.budget = 0 => outcome # "budget"

\* C4 witness: total_cost equal to the budget, a history long enough to be
\* summarized and a provider configured: the call is stopped.
C4_Witness ==
    /\ outcome = "budget"
    /\ turn0.cost = turn0.budget
    /\ Len(history) > MAX_HISTORY_MESSAGES
    /\ providers # <<>>

\* A step in which a provider raised during generation.
ProviderRaised == pc = "stream" /\ n_raised' # n_raised

RetryYielded ==
    /\ Len(events') = Len(events) + 1
    /\ events'[Len(events')].type = "retry"

\* C5: a RETRY event is yielded only for an error with transient phrasing and
\* no hard-exhaustion phrasing; an error with hard-exhaustion phrasing, even
\* with transient phrasing beside it, and an error with neither yield no RETRY
\* and make route go on to the next provider (or end, after the last one).
C5_RetryOnlyTransient ==
    [][ProviderRaised =>
          /\ RetryYielded => (TransientPhrased(last_error') /\ ~HardPhrased(last_error'))
          /\ (HardPhrased(last_error') \/ ~TransientPhrased(last_error')) =>
                /\ ~RetryYielded
                /\ EventsOfType("retry")' = EventsOfType("retry")
                /\ (loop_i' = loop_i + 1 \/ pc' = "raised")]_vars

\* C5 witness: the first error of the turn carries both 429 and quota
\* phrasing; no RETRY was yielded and the next provider was announced.
C5_Witness ==
    /\ pc = "stream"
    /\ n_raised = [transient |-> 0, other |-> 1]
    /\ HardPhrased(last_error) /\ TransientPhrased(last_error)
    /\ EventsOfType("retry") = <<>>
    /\ loop_i = 1
    /\ Len(EventsOfType("failover")) = 1

\* C6: the only exception that leaves route is the final failure, raised
\* after every provider of the list has been tried in the turn.
C6_OnlyFinalFailureRaised ==
    pc = "raised" =>
        /\ raised = FailoverExhausted
        /\ providers # <<>>
        /\ contacted = 0..(Len(providers) - 1)

-----------------------------------------------------------------------------
(* Properties of MCPClient (checked under SpecMCP) *)

Done(future) == future \in {"result", "exception", "cancelled"}

\* The id of the response read in this step, 0 when none is read.
AnsweredId ==
    IF \E i \in DOMAIN mcp_answered : mcp_answered'[i] # mcp_answered[i]
    THEN CHOOSE i \in DOMAIN mcp_answered : mcp_answered'[i] # mcp_answered[i]
    ELSE 0

\* C11: with several requests outstanding, a response resolves the future of
\* the request that carries its id, with a result or (for an error response)
\* an exception, and no other; a future that is done never changes again; a
\* response whose id is not in the pending table changes nothing.
C11_ResponseResolvesOwnRequest ==
    [][/\ \A c \in Callers :
             /\ mcp_calls'[c].future \in {"result", "exception"}
                    => mcp_calls'[c].payload.id = mcp_calls'[c].id
             /\ Done(mcp_calls[c].future)
                    => /\ mcp_calls'[c].future = mcp_calls[c].future
                       /\ mcp_calls'[c].payload = mcp_calls[c].payload
       /\ AnsweredId # 0 =>
             IF AnsweredId \in DOMAIN mcp_pending
             THEN \A c \in Callers :
                     IF mcp_calls[c].id = AnsweredId /\ mcp_calls[c].future = "pending"
                     THEN /\ mcp_calls'[c].future =
                                IF mcp_calls'[c].payload.body = "error"
                                THEN "exception" ELSE "result"
                          /\ mcp_calls'[c].payload.id = AnsweredId
                          /\ mcp_calls'[c].payload.n = mcp_answered'[AnsweredId]
                     ELSE mcp_calls'[c] = mcp_calls[c]
             ELSE /\ mcp_calls' = mcp_calls
                  /\ mcp_pending' = mcp_pending
                  /\ mcp_read' = mcp_read]_vars

\* C11 witness: two requests outstanding; the second was answered first and
\* then once more, the first is answered with an error after that.
C11_Witness ==
    /\ mcp_calls[2].future = "result"
    /\ mcp_calls[2].payload = Response(2, 1, "result")
    /\ mcp_answered[2] = 2
    /\ mcp_calls[1].future = "exception"
    /\ mcp_calls[1].payload = Response(1, 1, "error")
    /\ mcp_running

\* C12: once the client is disconnected the pending table is empty and no
\* future is left unresolved, and the disconnect, by a caller or by the read
\* loop, leaves every future that was unresolved cancelled.
C12_DisconnectCancelsPending ==
    [][/\ ~mcp_running' =>
             /\ DOMAIN mcp_pending' = {}
             /\ \A c \in Callers : mcp_calls'[c].future # "pending"
       /\ (mcp_running /\ ~mcp_running') =>
             \A c \in Callers :
                 mcp_calls[c].future = "pending" => mcp_calls'[c].future = "cancelled"]_vars

\* C12 witness: the read loop disconnected with two requests outstanding;
\* both callers were woken with CancelledError.
C12_Witness ==
    /\ ~mcp_running
    /\ mcp_closed_by = "read_loop"
    /\ DOMAIN mcp_pending = {}
    /\ \A c \in Callers :
          mcp_calls[c].st = "done" /\ mcp_calls[c].outcome = "CancelledError"

\* The disconnect by a caller, for C12.
C12_WitnessCaller ==
    /\ ~mcp_running
    /\ mcp_closed_by = "caller"
    /\ \A c \in Callers : mcp_calls[c].future = "cancelled" /\ mcp_calls[c].st = "waiting"

\* C13: the request id only grows; a request gets an id that is larger than
\* every id drawn before and that is not in the pending table; no two
\* requests have the same id.
C13_RequestIdsUnique ==
    [][/\ mcp_request_id' >= mcp_request_id
       /\ mcp_request_id' # mcp_request_id =>
             /\ mcp_request_id' \notin DOMAIN mcp_pending
             /\ \A c \in Callers : mcp_calls[c].id < mcp_request_id'
       /\ \A c, d \in Callers :
             (c # d /\ mcp_calls'[c].id # 0 /\ mcp_calls'[d].id # 0)
                 => mcp_calls'[c].id # mcp_calls'[d].id
       /\ \A i \in DOMAIN mcp_pending' : mcp_calls'[mcp_pending'[i]].id = i]_vars

\* C13 witness: two requests outstanding at once, with ids 1 and 2.
C13_Witness ==
    /\ DOMAIN mcp_pending = {1, 2}
    /\ mcp_calls[1].st = "waiting" /\ mcp_calls[1].id = 1
    /\ mcp_calls[2].st = "waiting" /\ mcp_calls[2].id = 2

\* C14: a request whose timeout has passed fails with TimeoutError, its
\* entry is then gone from the pending table, and a response for its id read
\* after the timeout has passed is dropped: the read loop goes on.
C14_TimeoutRemovesEntry ==
    [][\A c \in Callers :
          mcp_calls[c].st = "timing_out" =>
              /\ mcp_calls'[c].st = "done" =>
                    /\ mcp_calls'[c].outcome = "TimeoutError"
                    /\ mcp_calls[c].id \notin DOMAIN mcp_pending'
              /\ AnsweredId = mcp_calls[c].id =>
                    /\ mcp_read' = mcp_read
                    /\ mcp_calls' = mcp_calls]_vars

\* C17: a tool run that failed never ended the turn: its function_call and
\* function_response messages are in the history, one after the other.
C17_ToolFailureIsResult ==
    \A k \in 1..Len(tool_runs) :
        tool_runs[k].failure # "" =>
            /\ ~tool_runs[k].ended
            /\ \E j \in 1..(Len(history) - 1) :
                  /\ history[j] = ToolCallMessage(k)
                  /\ history[j + 1] = ToolResultMessage(k)

\* C18: after a disconnect the registry holds no tool of the client.
C18_DisconnectUnregisters ==
    (~mcp_running /\ mcp_closed_by # "") => (registry \cap RemoteTools) = {}

\* The kind of the line read in this step that is no JSON object, "" when
\* none is read.
NoiseRead ==
    IF Len(mcp_noise') > Len(mcp_noise) THEN mcp_noise'[Len(mcp_noise')] ELSE ""

OrchestratorUnchanged ==
    /\ history' = history
    /\ active_provider_index' = active_provider_index
    /\ session_usage' = session_usage

\* C19 as claimed: a malformed line, non-JSON in particular, ends the read
\* loop (which then disconnects), and leaves the Orchestrator's history,
\* active index and usage as they are.
C19_Original ==
    [][NoiseRead # "" => (mcp_read' = "ended" /\ OrchestratorUnchanged)]_vars

\* C19 as amended: a non-JSON line is skipped, the read loop goes on and the
\* client, its pending table and its futures are as before; a line that is
\* JSON but no object ends the read loop; both leave the Orchestrator's
\* history, active index and usage as they are.
C19_MalformedLine ==
    [][NoiseRead # "" =>
          /\ NoiseRead = "non_json" =>
                /\ mcp_read' = "reading"
                /\ mcp_running' /\ mcp_process' = "running"
                /\ mcp_pending' = mcp_pending /\ mcp_calls' = mcp_calls
          /\ NoiseRead = "non_object" => mcp_read' = "ended"
          /\ OrchestratorUnchanged]_vars

\* C19 witness: a non-JSON line was read with a request outstanding; the
\* client is still connected and the request still waits for its response.
C19_Witness ==
    /\ mcp_noise = <<"non_json">>
    /\ mcp_running /\ mcp_read = "reading"
    /\ mcp_calls[1].st = "waiting" /\ mcp_calls[1].future = "pending"
    /\ 1 \in DOMAIN mcp_pending

Disconnected ==
    /\ ~mcp_running
    /\ DOMAIN mcp_pending = {}
    /\ \A c \in Callers : mcp_calls[c].future # "pending"

\* C20: when the server's output has ended or the read loop has left its
\* loop on an error, the client gets disconnected, with the table empty and
\* every future resolved, whether or not a caller calls disconnect.
C20_ReadLoopDisconnects ==
    (mcp_process = "exited" \/ mcp_read = "ended") ~> Disconnected

\* C20 witness: the server went away with a request outstanding and the
\* read loop's own disconnect cancelled it.
C20_Witness ==
    /\ Disconnected
    /\ mcp_closed_by = "read_loop"
    /\ mcp_process = "exited"
    /\ mcp_read = "done"
    /\ \E c \in Callers : mcp_calls[c].future = "cancelled" /\ mcp_calls[c].id # 0

-----------------------------------------------------------------------------
(* Properties of a session (checked under SpecSession) *)

CallPart(p) == p.kind = "function_call"

ResultPartsFor(m, call) ==
    { k \in 1..Len(m.parts) : m.parts[k].kind = "function_response" /\ m.parts[k].call = call }

\* Every function_call part of the history is answered in the next message
\* by exactly one function_response part with its id.
WellPaired(hist) ==
    \A j \in 1..Len(hist) :
        \A k \in 1..Len(hist[j].parts) :
            CallPart(hist[j].parts[k]) =>
                /\ j < Len(hist)
                /\ Cardinality(ResultPartsFor(hist[j + 1], hist[j].parts[k].call)) = 1

\* C15: the history route hands to a provider's generate has every
\* function_call part followed, in the next message, by exactly one
\* function_response part with the same call id, whatever tool calls, pins,
\* unpins and summarizations came before.
C15_ToolCallsPaired ==
    pc = "stream" => WellPaired(history)

UsageCounters == {"prompt_tokens", "completion_tokens", "total_tokens", "total_cost"}

\* C16: none of the four counters of session_usage ever decreases, and a
\* /clear or a reset_provider leaves all four as they are.
C16_UsageNeverDecreases ==
    [][/\ \A f \in UsageCounters : session_usage'[f] >= session_usage[f]
       /\ (pc = "idle" /\ pc' = "idle" /\ (history' = <<>> \/ active_provider_index' = 0))
             => session_usage' = session_usage]_vars

\* C16 witness: usage was counted, over a failover, and the chat was cleared
\* afterwards: the history is empty, the provider reset, the counters kept.
C16_Witness ==
    /\ pc = "idle"
    /\ history = <<>>
    /\ active_provider_index = 0
    /\ session_usage.total_tokens > 0
    /\ session_usage.total_cost = calculate_cost(ModelName("Gemini Fallback"), 1, 1)

-----------------------------------------------------------------------------
(* Further properties of MCPClient (checked under SpecMCP) *)

\* C21: on a client that is not connected, a disconnect, by a caller or by
\* the read loop when it ends, changes nothing: who closed the client, the
\* process, the pending table and every future stay as they were.
C21_DisconnectIdempotent ==
    [][(~mcp_running /\ ~mcp_running') =>
          /\ mcp_closed_by' = mcp_closed_by
          /\ mcp_process' = mcp_process
          /\ mcp_pending' = mcp_pending
          /\ \A c \in Callers : mcp_calls'[c].future = mcp_calls[c].future]_vars

\* C21 witness: a caller disconnected with a request outstanding, and the
\* read loop, ended by the terminated process, called disconnect after it.
C21_Witness ==
    /\ ~mcp_running
    /\ mcp_closed_by = "caller"
    /\ mcp_process = "terminated"
    /\ mcp_read = "done"
    /\ DOMAIN mcp_pending = {}
    /\ \E c \in Callers : mcp_calls[c].future = "cancelled"

-----------------------------------------------------------------------------
(* Further properties of the Router (checked under Spec and SpecRetry) *)

\* C22: a call of route invokes summarize_session if and only if the budget
\* check passed and the history is longer than MAX_HISTORY_MESSAGES; it does
\* so at the start of the call only, before any provider is contacted for
\* generation, and at most once.
C22_SummarizeOncePerCall ==
    [][/\ (pc = "idle" /\ pc' # "idle") =>
             (pc' = "summarize" <=>
                 /\ Len(history) > MAX_HISTORY_MESSAGES
                 /\ ~budget_exceeded(session_budget, session_usage.total_cost))
       /\ pc' = "summarize" =>
             /\ pc = "idle"
             /\ contacted' = {}
             /\ chunks_out' = <<>>
             /\ events' = <<SummarizingEvent>>
       /\ pc = "summarize" => pc' \in {"setup", "raised"}
       /\ Len(EventsOfType("system")) <= 1]_vars

\* C22 witness: with a budget set and not used up, the long history was
\* summarized, once, and the provider is then contacted for generation.
C22_Witness ==
    /\ pc = "stream"
    /\ session_budget > 0
    /\ events = <<SummarizingEvent>>
    /\ history[1] = background_summary
    /\ Len(history) <= MAX_HISTORY_MESSAGES

-----------------------------------------------------------------------------
(* Further properties of the context functions (checked under SpecContext) *)

\* C23: what enforce_context_limit returns after it dropped messages from
\* the kept tail tells the caller so: it is not a value the function also
\* returns from a call that drops nothing.
C23_TruncationFlagged ==
    (EnforceCalled /\ c_result.path = "truncated")
        => enforce_context_limit(c_result.history, PyNone, 0).history # c_result.history

-----------------------------------------------------------------------------
(* Further properties of a session (checked under SpecSession) *)

\* C24: after a turn was cancelled, while streaming, while waiting for a
\* confirmation or while a tool executed, the history holds no function_call
\* part without its function_response part in the next message.
C24_CancelLeavesPaired ==
    (pc = "raised" /\ raised = CancelledRaised) => WellPaired(history)

\* The steps of a turn from the first chunk on, the cancellation among them,
\* add no function_call part without its function_response part.
CancelAddsNoDanglingCall ==
    [][(pc \in {"stream", "confirm", "execute"} /\ WellPaired(history))
          => WellPaired(history')]_vars

\* C25: the providers a turn tries are those of the list in place when the
\* turn took it, at their positions in that list, and once the turn has its
\* list the selection of a provider never fails on an index outside the
\* list, whatever reloads happen during the turn.
C25_TurnKeepsProviderList ==
    /\ pc = "stream" => current_provider = turn0.providers[actual_index + 1]
    /\ (pc = "raised" /\ raised = IndexErrorRaised) => turn0.providers = <<>>

-----------------------------------------------------------------------------
(* Tool discovery (checked under SpecMCP) *)

\* C26: once the client has registered the tools the server listed, every
\* tool of the list is in the registry, also one whose definition has no
\* input schema or a schema that cannot be parsed.
C26_SchemaLessToolRegistered ==
    (registry \cap RemoteTools) # {} =>
        \A tool_def \in ToolDefinitions : tool_def.name \in registry

-----------------------------------------------------------------------------
(* The failover loop of Router.route (checked under Spec and SpecRetry) *)

\* The call is in the loops over the providers, or has left them.
InLoops ==
    \/ pc = "stream"
    \/ pc \in {"returned", "raised"} /\ outcome \in {"success", "exhausted"}

\* The index the outer loop selects in its round k (k = 0 is the first round).
IndexOfRound(k) == (start_index + k) % num_providers

FirstEventCommits ==
    /\ pc = "stream"
    /\ first_chunk
    /\ ~first_chunk'
    /\ Len(chunks_out') = Len(chunks_out) + 1
    /\ active_provider_index' = actual_index

\* The step is the normalisation at the start of route: an index outside the
\* provider list becomes 0.
IndexNormalised ==
    /\ pc = "setup"
    /\ active_provider_index >= Len(providers)
    /\ active_provider_index' = 0

\* The step is the reset when every provider has been given up.
ExhaustionReset ==
    /\ pc = "stream"
    /\ pc' = "raised"
    /\ outcome' = "exhausted"
    /\ active_provider_index' = 0

\* C28 as claimed: during a turn active_provider_index changes only at the
\* moment a provider's stream yields its first event, and then to that
\* provider.
C28_Original ==
    [][(pc # "idle" /\ active_provider_index' # active_provider_index) =>
          FirstEventCommits]_vars

\* C28 as amended: during a turn active_provider_index changes to the provider
\* being tried only at the moment that provider's stream yields its first
\* event; a step that starts an attempt, retries the provider or announces a
\* failover leaves it as it is. The only other changes during a turn set it to
\* 0: the normalisation of an index outside the list when the call starts, and
\* the reset when every provider has been given up.
C28_CommitOnFirstEvent ==
    [][/\ (pc # "idle" /\ active_provider_index' # active_provider_index) =>
              FirstEventCommits \/ IndexNormalised \/ ExhaustionReset
       /\ (pc = "stream" /\ pc' = "stream" /\
              (attempt' # attempt \/ loop_i' # loop_i)) =>
              active_provider_index' = active_provider_index]_vars

\* C28 witness: a failover to the second provider was announced, that provider
\* was retried twice and has yielded nothing; the first one is still active.
C28_Witness ==
    /\ pc = "stream"
    /\ loop_i = 1
    /\ attempt >= 2
    /\ first_chunk
    /\ actual_index = 1
    /\ active_provider_index = 0
    /\ events[Len(events)].type = "retry"

\* C29: active_provider_index is written at only two points, when a provider
\* stream yields its first event and when every provider has been exhausted
\* (reset to 0); no other step (the start of a turn, /clear, a reload of the
\* providers) changes it.
C29_IndexWrittenAtTwoPoints ==
    [][active_provider_index' # active_provider_index =>
          FirstEventCommits \/ ExhaustionReset]_vars

\* The RETRY events yielded so far that name the provider.
RetriesOf(name) ==
    SelectSeq(events, LAMBDA ev : ev.type = "retry" /\ ev.provider = name)

\* The step is a retry: the inner loop goes on to its next attempt.
RetryStep == pc = "stream" /\ pc' = "stream" /\ attempt' = attempt + 1

\* The step is a failure of the provider after its last allowed retry.
FailureAfterLastRetry ==
    pc = "stream" /\ n_raised' # n_raised /\ attempt = max_retries

\* C30: a provider is retried at most max_retries (10) times in one route
\* call. A retry yields one RETRY event that names the provider being tried
\* and stays with that provider: the round of the outer loop, the provider and
\* the recorded errors are unchanged. The failure that follows the last
\* allowed retry yields no RETRY event, records the error under that provider
\* and leaves the provider: the outer loop advances to the next provider or,
\* after the last one, the call ends with every provider exhausted.
C30_RetryCeiling ==
    /\ [](InLoops =>
            /\ attempt <= max_retries
            /\ \A k \in 1..Len(turn0.providers) :
                  Len(RetriesOf(turn0.providers[k])) <= max_retries
            /\ pc = "stream" => Len(RetriesOf(current_provider)) = attempt)
    /\ [][/\ RetryStep =>
                 /\ attempt < max_retries
                 /\ loop_i' = loop_i
                 /\ turn0' = turn0
                 /\ all_provider_errors' = all_provider_errors
                 /\ events' = Append(events,
                       RetryEvent(current_provider, attempt + 1,
                                  Min(Pow2(attempt), MAX_WAIT)))
          /\ FailureAfterLastRetry =>
                 /\ Len(EventsOfType("retry"))' = Len(EventsOfType("retry"))
                 /\ all_provider_errors' =
                       Append(all_provider_errors,
                              [provider |-> current_provider, error |-> last_error'.text])
                 /\ \/ pc' = "stream" /\ loop_i' = loop_i + 1 /\ attempt' = 0
                    \/ pc' = "raised" /\ outcome' = "exhausted" /\
                          loop_i + 1 = num_providers]_vars

\* C30 witness: the first of two providers failed after its tenth retry; its
\* error is recorded, the failover to the second provider is the last event
\* and the second provider is at its first attempt.
C30_Witness ==
    /\ pc = "stream"
    /\ num_providers = 2
    /\ loop_i = 1
    /\ attempt = 0
    /\ Len(RetriesOf(turn0.providers[1])) = max_retries
    /\ Len(all_provider_errors) = 1
    /\ all_provider_errors[1].provider = turn0.providers[1]
    /\ is_transient_phrased(last_error)
    /\ events[Len(events)].type = "failover"
    /\ events[Len(events) - 1].type = "retry"
    /\ events[Len(events) - 1].attempt = max_retries

-----------------------------------------------------------------------------
(* The restart after a tool call (checked under SpecSession) *)

\* C31: in a route call that generate_response makes after a tool call of
\* provider p, the first provider tried is p, and a FAILOVER event is yielded
\* only after p itself has failed in that call.
C31_RestartKeepsProvider ==
    turn0.after_tool # "" =>
        /\ (pc = "stream" /\ loop_i = 0) => current_provider = turn0.after_tool
        /\ EventsOfType("failover") # <<>> =>
              /\ all_provider_errors # <<>>
              /\ all_provider_errors[1].provider = turn0.after_tool

-----------------------------------------------------------------------------
(* The handshake of MCPClient.connect (checked under SpecHandshake) *)

\* The position of the method in what connect has written, 0 if it is not there.
WrotePos(method) ==
    IF \E k \in 1..Len(mcp_connect.wrote) : mcp_connect.wrote[k] = method
    THEN CHOOSE k \in 1..Len(mcp_connect.wrote) : mcp_connect.wrote[k] = method
    ELSE 0

\* C32: the handshake of connect is ordered. The first thing written is the
\* initialize request; the initialized notification is written only after
\* the result of initialize was received, as the second message; a catalogue
\* request is written, and a tool of the server registered, only after that
\* notification. When initialize fails or times out, connect ends with the
\* client disconnected, no catalogue request written and none of the
\* server's tools registered.
C32_HandshakeOrdered ==
    /\ mcp_connect.wrote # <<>> => mcp_connect.wrote[1] = "initialize"
    /\ WrotePos("notifications/initialized") # 0 =>
          /\ WrotePos("notifications/initialized") = 2
          /\ mcp_calls[1].outcome = "result"
          /\ mcp_calls[1].payload.body = "result"
    /\ \A method \in Catalogue :
          WrotePos(method) # 0 =>
              /\ WrotePos("notifications/initialized") = 2
              /\ WrotePos(method) > 2
    /\ registry # BaseTools => WrotePos("notifications/initialized") = 2
    /\ mcp_connect.st \in {"failed", "cancelled"} =>
          /\ ~mcp_running
          /\ registry = BaseTools
          /\ \A method \in Catalogue : WrotePos(method) = 0

\* C32 witness: initialize, then the notification, then tools/list, whose
\* result registered the server's tools.
C32_Witness ==
    /\ mcp_connect.wrote = <<"initialize", "notifications/initialized", "tools/list">>
    /\ RemoteTools \subseteq registry
    /\ mcp_running

\* C32 witness: initialize timed out and connect ended with the client
\* disconnected and nothing registered.
C32_WitnessTimeout ==
    /\ mcp_connect.st = "failed"
    /\ mcp_calls[1].outcome = "TimeoutError"
    /\ mcp_closed_by = "caller"
    /\ mcp_process = "terminated"
    /\ registry = BaseTools

-----------------------------------------------------------------------------
(* Further properties of the context functions (checked under SpecContext) *)

\* limit - sys_tokens - recent_tokens - wrapper_overhead_tokens for the last
\* KEEP_LAST_MESSAGES messages of the history of the call.
SummaryAllowance ==
    c_call.limit.val - estimate_str(c_call.sys)
        - estimate_list(SliceFrom(c_history, -KEEP_LAST_MESSAGES))
        - WRAPPER_OVERHEAD_TOKENS

\* C33: when the limit is positive, the history with the system instruction
\* exceeds it and the summary allowance is not negative, enforce_context_limit
\* returns exactly one synthetic user message that carries the summary,
\* followed by the last 4 messages of the input, unchanged and in their order.
C33_SummaryThenLastFour ==
    (EnforceCalled /\ ~c_call.limit.none /\ c_call.limit.val > 0
                   /\ CurrentTokens > c_call.limit.val /\ SummaryAllowance >= 0)
        => /\ Len(c_result.history) = KEEP_LAST_MESSAGES + 1
           /\ c_result.history[1].role = "user"
           /\ c_result.history[1].id = 0
           /\ c_result.history[1].hasContent
           /\ c_result.history[1].content >= LEN_SYSTEM_NOTE
           /\ \A k \in 1..KEEP_LAST_MESSAGES :
                 c_result.history[k + 1] =
                     c_history[Len(c_history) - KEEP_LAST_MESSAGES + k]

\* C33 witness: a history of more than 5 messages over its limit, returned as
\* the summary message and its last 4 messages.
C33_Witness ==
    /\ EnforceCalled
    /\ Len(c_history) > KEEP_LAST_MESSAGES + 1
    /\ CurrentTokens > c_call.limit.val
    /\ SummaryAllowance >= 0
    /\ Len(c_result.history) = KEEP_LAST_MESSAGES + 1
    /\ c_result.history[1].role = "user"
    /\ c_result.history[KEEP_LAST_MESSAGES + 1] = c_history[Len(c_history)]

\* The positions of the history of the call that lie before its last 10
\* messages and hold an unpinned message.
OldUnpinned ==
    { j \in 1..Len(c_history) : j <= Len(c_history) - KEEP_RECENT /\ ~c_history[j].pinned }

\* The number of unpinned old messages before position j.
RankOf(j) == Cardinality({ i \in OldUnpinned : i < j })

\* C34: for a count that is not negative, get_messages_to_summarize returns
\* at most count messages to summarize; they are exactly the oldest unpinned
\* messages among those before the last 10, in chronological order, and every
\* unpinned older message beyond the first count is in to_keep.
C34_OldestCountSummarized ==
    (c_call.op = "split" /\ c_call.count >= 0) =>
        /\ Len(c_result.to_summarize) <= c_call.count
        /\ Len(c_result.to_summarize) =
              IF Cardinality(OldUnpinned) < c_call.count
              THEN Cardinality(OldUnpinned) ELSE c_call.count
        /\ \A k \in 1..Len(c_result.to_summarize) :
              /\ c_result.to_summarize[k].id \in OldUnpinned
              /\ c_result.to_summarize[k] = c_history[c_result.to_summarize[k].id]
              /\ RankOf(c_result.to_summarize[k].id) = k - 1
        /\ \A j \in OldUnpinned :
              RankOf(j) >= c_call.count => IsIn(c_history[j], c_result.to_keep)

\* C34 witness: two unpinned old messages split with count 1: the older one
\* is summarized, the other is kept.
C34_Witness ==
    /\ c_call.op = "split"
    /\ c_call.count = 1
    /\ Cardinality(OldUnpinned) = 2
    /\ Len(c_result.to_summarize) = 1
    /\ c_result.to_summarize[1].id = 1
    /\ IsIn(c_history[2], c_result.to_keep)
    /\ ~IsIn(c_history[1], c_result.to_keep)

\* len() of the rendering of the newest m messages of the history of the call.
SuffixLen(m) ==
    SumSeq([k \in 1..m |-> distill_formatted_len(c_history[Len(c_history) - m + k])])

\* available_chars of the call
AvailableChars == Max(0, c_call.max_chars - DISTILL_WRAPPER_OVERHEAD)

\* distill stops early after m messages: the minimum of recent messages is
\* included and more than half the budget is used.
EnoughAfter(m) == m >= RECENT_MESSAGES_COUNT /\ 2 * SuffixLen(m) > AvailableChars

\* C35: distill renders a contiguous suffix of the history, in chronological
\* order. Walking newest-first it stops at the first message that would exceed
\* the character budget, or once at least RECENT_MESSAGES_COUNT messages are
\* included and more than half the budget is used, and not before. When a
\* message is included the block returned, wrapper included, is no longer
\* than max_chars; when none fits the sentinel string is returned.
C35_DistillSuffixWithinBudget ==
    c_call.op = "distill" =>
        LET n == Len(c_result.ids)
        IN  /\ n <= Len(c_history)
            /\ \A k \in 1..n : c_result.ids[k] = c_history[Len(c_history) - n + k].id
            /\ SuffixLen(n) <= AvailableChars
            /\ \A m \in 1..(n - 1) : ~EnoughAfter(m)
            /\ n < Len(c_history) =>
                  \/ SuffixLen(n + 1) > AvailableChars
                  \/ n >= 1 /\ EnoughAfter(n)
            /\ n >= 1 =>
                  /\ c_result.length =
                        LEN_DISTILL_HEADER + SuffixLen(n) + LEN_DISTILL_FOOTER
                  /\ c_result.length <= c_call.max_chars
            /\ n = 0 => c_result.length = LEN_SENTINEL

\* C35 witness: six messages, of which distill renders the newest five and
\* stops with more than half the budget used although the sixth would fit.
C35_Witness ==
    /\ c_call.op = "distill"
    /\ Len(c_history) = 6
    /\ Len(c_result.ids) = RECENT_MESSAGES_COUNT
    /\ c_result.ids[1] = 2
    /\ SuffixLen(6) <= AvailableChars
    /\ c_result.length <= c_call.max_chars

\* C35 witness: a budget that holds no message; the sentinel is returned.
C35_WitnessSentinel ==
    /\ c_call.op = "distill"
    /\ c_history # <<>>
    /\ c_call.max_chars > DISTILL_WRAPPER_OVERHEAD
    /\ c_result.ids = <<>>
    /\ c_result.length = LEN_SENTINEL

-----------------------------------------------------------------------------
(* The pending table of MCPClient (checked under SpecMCP) *)

\* C36: every entry of the pending table belongs to a send_request call that
\* is still in progress, its future unresolved or just timed out: a call that
\* was cancelled, or whose request could not be written, leaves no entry.
C36_PendingEntriesAwaited ==
    \A id \in DOMAIN mcp_pending :
        /\ mcp_calls[mcp_pending[id]].id = id
        /\ mcp_calls[mcp_pending[id]].st \in {"waiting", "timing_out"}

\* The consequence C36 names: a response read for the id of a call that was
\* cancelled is dropped, and the read loop goes on.
C36_LateResponseDropped ==
    [][(ReadLoopReading /\ mcp_answered' # mcp_answered /\
          \E c \in Callers : /\ mcp_calls[c].outcome = "CancelledError"
                             /\ mcp_answered'[mcp_calls[c].id] # mcp_answered[mcp_calls[c].id])
          => mcp_read' = "reading"]_vars

-----------------------------------------------------------------------------
(* The order of the messages get_messages_to_summarize keeps (SpecContext) *)

\* C37: for a count that is not negative, the to_keep list of
\* get_messages_to_summarize holds the kept messages in the relative order
\* they have in the history: a kept message never stands ahead of a kept
\* message that is older.
C37_KeptInHistoryOrder ==
    (c_call.op = "split" /\ c_call.count >= 0) =>
        \A k \in 1..Len(c_result.to_keep) : \A l \in 1..Len(c_result.to_keep) :
            k < l => c_result.to_keep[k].id < c_result.to_keep[l].id

-----------------------------------------------------------------------------
(* summarize_session (checked under Spec) *)

\* A step of summarize_session that replaces the history.
SummaryWritten == pc = "summarize" /\ history' # history

\* The positions of the history that lie before its last 10 messages and hold
\* an unpinned message.
SummarizablePositions ==
    { j \in 1..Len(history) : j <= Len(history) - KEEP_RECENT /\ ~history[j].pinned }

\* The positions summarize_session removes: the SUMMARIZE_COUNT oldest of the
\* summarizable ones.
RemovedPositions ==
    { j \in SummarizablePositions :
        Cardinality({ i \in SummarizablePositions : i < j }) < SUMMARIZE_COUNT }

\* The number of times message m occurs in s.
CountIn(m, s) == Cardinality({ k \in 1..Len(s) : s[k] = m })

SummaryNotWritten ==
    /\ pc = "summarize"
    /\ contacted' # contacted
    /\ history' # <<background_summary>> \o Split.to_keep

\* C39: when the provider asked for the summary fails or produces no text,
\* summarize_session leaves the history as it was and nothing leaves route;
\* route then goes on to the provider loops, which start at the active
\* provider with no error recorded, the history still untouched.
C39_FailedSummaryLeavesHistory ==
    /\ [][SummaryNotWritten =>
             /\ history' = history
             /\ pc' = "setup"
             /\ raised' = raised
             /\ events' = events
             /\ outcome' = outcome
             /\ providers' = providers
             /\ active_provider_index' = active_provider_index
             /\ session_usage' = session_usage]_vars
    /\ [][(pc = "setup" /\ pc' # "setup" /\ Len(providers) > 0) =>
             /\ pc' = "stream"
             /\ loop_i' = 0
             /\ attempt' = 0
             /\ start_index' = active_provider_index'
             /\ all_provider_errors' = <<>>
             /\ history' = history]_vars

\* C39 witness: the provider was asked for a summary, the history is as long
\* as before, and the generation has failed over to the second provider.
C39_Witness ==
    /\ pc = "stream"
    /\ Len(events) = 2
    /\ events[1] = SummarizingEvent
    /\ events[2].type = "failover"
    /\ 0 \in contacted
    /\ loop_i = 1
    /\ Len(history) = MAX_HISTORY_MESSAGES + 1
    /\ history[1] # background_summary

-----------------------------------------------------------------------------
(* Termination of route (checked under SpecRetryFair) *)

\* The calls of provider.generate a route call has made so far: one for every
\* error raised, and the one that is streaming or has completed.
GenerationAttempts ==
    n_raised.transient + n_raised.other
        + (IF pc = "stream" \/ Succeeded THEN 1 ELSE 0)

\* C40: a route call over N providers makes at most N * (max_retries + 1)
\* calls of provider.generate; every call of route that has started ends, and
\* one that reached the provider loops ends by a completed stream or by the
\* failure raised after all providers failed.
C40_RouteTerminates ==
    /\ [](InLoops => GenerationAttempts <= num_providers * (max_retries + 1))
    /\ [](pc \in {"returned", "raised"} /\ InLoops => Succeeded \/ Exhausted)
    /\ (pc \in {"setup", "stream"}) ~> (pc \in {"returned", "raised"})
    /\ (pc = "stream") ~> (Succeeded \/ Exhausted)

\* C40 witness: with two providers every one of the 22 attempts was made and
\* failed with a transient error, and the call ended with the terminal failure.
C40_Witness ==
    /\ Exhausted
    /\ num_providers = 2
    /\ n_raised.transient = 2 * (max_retries + 1)
    /\ n_raised.other = 0
    /\ Len(all_provider_errors) = 2

\* C40 witness: the call ended by a completed stream at its 22nd attempt.
C40_WitnessCompleted ==
    /\ Succeeded
    /\ num_providers = 2
    /\ GenerationAttempts = 2 * (max_retries + 1)

====
